---- MODULE Spec2Model ----
(***************************************************************************)
(* dartforge: the Telnet codec (src-tauri/src/ansi.rs), the upstream       *)
(* reader that feeds it (proxy/src/main.rs, mud_read_task) and the         *)
(* per-client session of the WebSocket proxy (proxy/src/main.rs).          *)
(*                                                                         *)
(* Bytes are integers 0..255.  A Rust String is modelled by its UTF-8      *)
(* bytes, so String::from_utf8_lossy is a function from byte sequences to  *)
(* byte sequences that replaces every invalid part by U+FFFD (EF BF BD).   *)
(* Sequences are 1-based: the code's index i is i+1 here.                  *)
(***************************************************************************)
EXTENDS Integers, Sequences, FiniteSets, TLC

VARIABLES
    \* ---- codec / upstream reader (one connection) ----
    pending,      \* bytes the server will still send on this connection
    stream,       \* bytes read from the connection so far
    remainder,    \* mud_read_task's `remainder` local
    input,        \* the argument of the last process_output call
    processed,    \* the ProcessedOutput of the last call
    shown,        \* concatenation of the display texts produced so far
    replies,      \* concatenation of the reply lists produced so far
    nReads,       \* number of successful reads (process_output calls)
    \* ---- proxy: one client session (handle_connection) ----
    pc,           \* where the per-client handler stands
    wsClosed,     \* the downstream stream has delivered Close / None
    nAddrs,       \* connect_to_mud: number of resolved addresses
    attempt,      \* connect_to_mud: the outer loop's `attempt`
    addrIdx,      \* connect_to_mud: position in `addrs`
    connLog,      \* history: what the connect_to_mud call in progress, or the one
                  \* that has just returned, did (forgotten at the handler's next step)
    connResult,   \* history: "pending", "some" or "none" for that call, else "idle"
    nConnects,    \* history: connect_to_mud calls so far
    nConns,       \* history: upstream connections established so far
    cur,          \* the connection of the innermost run_mud_loop frame (0: none)
    depth,        \* run_mud_loop frames on the stack
    rstate,       \* per connection: mud_read_task
    wstate,       \* per connection: mud_write_task
    writeQ,       \* per connection: the mud_write channel
    lastStatus,   \* history: the last status message enqueued on ws_tx
    sendTask,     \* ws_send_task
    nMsgs,        \* history: client messages consumed
    nReconnects,  \* history: "reconnect" messages among them
    upReads,      \* history: upstream reads that returned data
    \* ---- one bridge in detail: the two channels and what passes through them ----
    variant,      \* "proxy" (proxy/src/main.rs) or "desktop" (src-tauri/src/connection.rs)
    backlog,      \* items each channel already held when the observation starts
    upQ,          \* the upstream-write channel (mud_write_tx / write_tx): byte buffers
    upLog,        \* history: every buffer enqueued on it, in order
    upSent,       \* history: every buffer written to the upstream socket, in order
    outQ,         \* the outbox (ws_tx): ServerMessages
    outLog,       \* history: every message enqueued on it (desktop: emitted), in order
    outSent,      \* history: every message handed to the client, in order
    rjob,         \* the reader's sends still to do for the read it is handling
    \* ---- what each upstream connection of a session owns ----
    remOf,        \* per connection: its reader's `remainder` local
    wq,           \* per connection: its mud_write channel, every item with its origin
    feed,         \* per connection: bytes its server will still send
    got,          \* history, per connection: bytes read from it so far
    wrote,        \* history, per connection: items written to its socket, in order
    emitted,      \* history, per connection: messages its reader enqueued on ws_tx
    \* ---- desktop: ConnectionState and the commands that touch it (lib.rs) ----
    cmd_tx,       \* ConnectionState.cmd_tx: 0 for None, else the channel it sends on
    task_handle,  \* ConnectionState.task_handle: 0 for None, else the task it joins
    conn_task,    \* per spawn: the task running connection::connect
    at,           \* per command invocation: where its body stands
    kind,         \* per command invocation: which command it is
    tx,           \* per send_command invocation: its clone of cmd_tx
    result,       \* per command invocation: what it returned
    lastDone      \* history: the invocation that returned last (0: none yet)

codecVars == <<pending, stream, remainder, input, processed, shown, replies, nReads>>

connectVars == <<nAddrs, attempt, addrIdx, connLog, connResult, nConnects>>

taskVars == <<rstate, wstate, writeQ>>

proxyVars ==
    <<pc, wsClosed, nAddrs, attempt, addrIdx, connLog, connResult, nConnects, nConns,
      cur, depth, rstate, wstate, writeQ, lastStatus, sendTask, nMsgs, nReconnects,
      upReads>>

bridgeVars == <<variant, backlog, upQ, upLog, upSent, outQ, outLog, outSent, rjob>>

\* The locals run_mud_loop creates for its connection.
localVars == <<remOf, wq>>

handoverVars == <<remOf, wq, feed, got, wrote, emitted>>

desktopVars == <<cmd_tx, task_handle, conn_task, at, kind, tx, result, lastDone>>

vars == <<codecVars, proxyVars, bridgeVars, handoverVars, desktopVars>>

(***************************************************************************)
(* Telnet protocol constants, ansi.rs lines 2-8.                           *)
(***************************************************************************)
IAC == 255
WILL == 251
WONT == 252
DO == 253
DONT == 254
SB == 250
SE == 240

(***************************************************************************)
(* Bounds and input alphabet.                                              *)
(***************************************************************************)
MaxLen == 4

\* 'A' and every byte the codec tests for.
Bytes == {65, IAC, WILL, WONT, DO, DONT, SB, SE}

RECURSIVE SeqsUpTo(_, _)
SeqsUpTo(S, n) ==
    IF n = 0 THEN {<<>>}
    ELSE LET shorter == SeqsUpTo(S, n - 1)
         IN  shorter \cup {Append(s, b) : s \in {t \in shorter : Len(t) = n - 1}, b \in S}

\* Complete units of the protocol, with the option bytes and payload the
\* specification's examples use (6, 1, 24 0, 'B', go-ahead 249), and one two-byte
\* UTF-8 character (U+00E9, C3 A9).
Frames ==
    { <<66>>, <<195, 169>>, <<IAC, IAC>>, <<IAC, DO, 6>>, <<IAC, WILL, 1>>, <<IAC, WONT, 1>>,
      <<IAC, DONT, 1>>, <<IAC, SB, 24, 0, IAC, SE>>, <<IAC, 249>> }

Inputs ==
    SeqsUpTo(Bytes, MaxLen) \cup Frames \cup {f \o g : f \in Frames, g \in Frames}

(***************************************************************************)
(* String::from_utf8_lossy, as called at ansi.rs 35, 52, 82 and 100.       *)
(***************************************************************************)
REPLACEMENT == <<239, 191, 189>>

safe_get(v, i) == IF i <= Len(v) THEN v[i] ELSE 0

IsCont(b) == b >= 128 /\ b <= 191

utf8_char_width(b) ==
    IF b < 128 THEN 1
    ELSE IF b >= 194 /\ b <= 223 THEN 2
    ELSE IF b >= 224 /\ b <= 239 THEN 3
    ELSE IF b >= 240 /\ b <= 244 THEN 4
    ELSE 0

SecondOk3(b0, b1) ==
    \/ b0 = 224 /\ b1 >= 160 /\ b1 <= 191
    \/ b0 >= 225 /\ b0 <= 236 /\ IsCont(b1)
    \/ b0 = 237 /\ b1 >= 128 /\ b1 <= 159
    \/ b0 >= 238 /\ b0 <= 239 /\ IsCont(b1)

SecondOk4(b0, b1) ==
    \/ b0 = 240 /\ b1 >= 144 /\ b1 <= 191
    \/ b0 >= 241 /\ b0 <= 243 /\ IsCont(b1)
    \/ b0 = 244 /\ b1 >= 128 /\ b1 <= 143

\* The chunk that starts at v[i]: whether it is a valid character, and its length
\* (for an invalid chunk: the bytes one U+FFFD replaces).
Utf8Chunk(v, i) ==
    LET b0 == v[i]
        w  == utf8_char_width(b0)
        b1 == safe_get(v, i + 1)
        b2 == safe_get(v, i + 2)
        b3 == safe_get(v, i + 3)
    IN  IF w = 1 THEN [ok |-> TRUE, n |-> 1]
        ELSE IF w = 2 THEN
            IF IsCont(b1) THEN [ok |-> TRUE, n |-> 2] ELSE [ok |-> FALSE, n |-> 1]
        ELSE IF w = 3 THEN
            IF ~SecondOk3(b0, b1) THEN [ok |-> FALSE, n |-> 1]
            ELSE IF ~IsCont(b2) THEN [ok |-> FALSE, n |-> 2]
            ELSE [ok |-> TRUE, n |-> 3]
        ELSE IF w = 4 THEN
            IF ~SecondOk4(b0, b1) THEN [ok |-> FALSE, n |-> 1]
            ELSE IF ~IsCont(b2) THEN [ok |-> FALSE, n |-> 2]
            ELSE IF ~IsCont(b3) THEN [ok |-> FALSE, n |-> 3]
            ELSE [ok |-> TRUE, n |-> 4]
        ELSE [ok |-> FALSE, n |-> 1]

RECURSIVE LossyFrom(_, _)
LossyFrom(v, i) ==
    IF i > Len(v) THEN <<>>
    ELSE LET c == Utf8Chunk(v, i)
         IN  (IF c.ok THEN SubSeq(v, i, i + c.n - 1) ELSE REPLACEMENT)
                 \o LossyFrom(v, i + c.n)

\* A decoder that keeps the bytes as they are (no validation).
from_utf8_unchecked(v) == v

from_utf8_lossy(v) == LossyFrom(v, 1)

(***************************************************************************)
(* process_output, ansi.rs 25-104.                                         *)
(***************************************************************************)
\* An early return that keeps raw[i..] as remainder but starts one byte late.
IncompleteLate(raw, i, display_bytes, responses) ==
    [display_bytes |-> display_bytes, responses |-> responses,
     remainder |-> SubSeq(raw, i + 1, Len(raw))]

\* The early returns at 34-38, 51-55 and 81-85: remainder = raw[i..].
Incomplete(raw, i, display_bytes, responses) ==
    [display_bytes |-> display_bytes, responses |-> responses,
     remainder |-> SubSeq(raw, i, Len(raw))]

\* Replies with the arms of the match exchanged.
NegotiationSwapped(responses, cmd, option) ==
    IF cmd = DO THEN Append(responses, <<IAC, DONT, option>>)
    ELSE IF cmd = WILL THEN Append(responses, <<IAC, WONT, option>>)
    ELSE responses

\* The inner match at 59-63.
Negotiation(responses, cmd, option) ==
    IF cmd = DO THEN Append(responses, <<IAC, WONT, option>>)
    ELSE IF cmd = WILL THEN Append(responses, <<IAC, DONT, option>>)
    ELSE responses

\* A search that resumes on the SE byte instead of after it.
RECURSIVE FindSEKeepsSE(_, _)
FindSEKeepsSE(raw, j) ==
    IF j > Len(raw) THEN 0
    ELSE IF raw[j] = IAC /\ j + 1 <= Len(raw) /\ raw[j + 1] = SE THEN j + 1
    ELSE FindSEKeepsSE(raw, j + 1)

\* The search loop at 69-78: the index the scan resumes at (the code's i = j + 2),
\* or 0 when no IAC SE pair is found (found_se = false).
RECURSIVE FindSE(_, _)
FindSE(raw, j) ==
    IF j > Len(raw) THEN 0
    ELSE IF raw[j] = IAC /\ j + 1 <= Len(raw) /\ raw[j + 1] = SE THEN j + 2
    ELSE FindSE(raw, j + 1)

\* Line 44: display_bytes.push(IAC).
LiteralIAC(display_bytes) == Append(display_bytes, IAC)

\* A skip that passes the IAC only and leaves the command byte to the scan.
SkipCommandKeepsCode(i) == i + 1

\* Lines 89-91: any other command is two bytes long, i += 2.
SkipCommand(i) == i + 2

\* A match that takes every command byte for a three-byte negotiation.
IsNegotiationAnyCommand(cmd) == TRUE

\* The match arm at 48: DO | WILL | WONT | DONT.
IsNegotiation(cmd) == cmd \in {DO, WILL, WONT, DONT}

\* The while loop at 30-97, from index i on.
RECURSIVE ScanFrom(_, _, _, _)
ScanFrom(raw, i, display_bytes, responses) ==
    IF i > Len(raw) THEN
        [display_bytes |-> display_bytes, responses |-> responses, remainder |-> <<>>]
    ELSE IF raw[i] = IAC THEN
        IF i + 1 > Len(raw) THEN Incomplete(raw, i, display_bytes, responses)
        ELSE LET cmd == raw[i + 1] IN
            IF cmd = IAC THEN
                ScanFrom(raw, i + 2, LiteralIAC(display_bytes), responses)
            ELSE IF IsNegotiation(cmd) THEN
                IF i + 2 > Len(raw) THEN Incomplete(raw, i, display_bytes, responses)
                ELSE ScanFrom(raw, i + 3, display_bytes,
                              Negotiation(responses, cmd, raw[i + 2]))
            ELSE IF cmd = SB THEN
                LET next == FindSE(raw, i + 2) IN
                IF next = 0 THEN Incomplete(raw, i, display_bytes, responses)
                ELSE ScanFrom(raw, next, display_bytes, responses)
            ELSE ScanFrom(raw, SkipCommand(i), display_bytes, responses)
    ELSE ScanFrom(raw, i + 1, Append(display_bytes, raw[i]), responses)

\* The scan before the text conversion: display_bytes, responses, remainder.
Scan(raw) == ScanFrom(raw, 1, <<>>, <<>>)

\* A bounds test that lets the index one past the end through.
InBufferOffByOne(raw, k) == k <= Len(raw) + 1

\* The bounds tests at 30, 33, 49, 71 and 72: index < raw.len().
InBuffer(raw, k) == k <= Len(raw)

\* One iteration of the while loop at 30-97, standing at index i: the highest index
\* of raw it reads, and the index it goes on at (0: it returns from the function).
ScanIteration(raw, i) ==
    IF safe_get(raw, i) # IAC THEN [at |-> i, reads |-> i, next |-> i + 1]
    ELSE IF ~InBuffer(raw, i + 1) THEN [at |-> i, reads |-> i, next |-> 0]
    ELSE LET cmd == safe_get(raw, i + 1) IN
        IF cmd = IAC THEN [at |-> i, reads |-> i + 1, next |-> i + 2]
        ELSE IF IsNegotiation(cmd) THEN
            IF ~InBuffer(raw, i + 2) THEN [at |-> i, reads |-> i + 1, next |-> 0]
            ELSE [at |-> i, reads |-> i + 2, next |-> i + 3]
        ELSE IF cmd = SB THEN
            LET next == FindSE(raw, i + 2) IN
            IF next = 0 THEN [at |-> i, reads |-> IF InBuffer(raw, i + 2) THEN Len(raw) ELSE i + 1,
                              next |-> 0]
            ELSE [at |-> i, reads |-> next - 1, next |-> next]
        ELSE [at |-> i, reads |-> i + 1, next |-> SkipCommand(i)]

\* The iterations of one call, from index i on; an iteration that did not move the
\* index forward is the last one listed.
RECURSIVE ScanTrace(_, _)
ScanTrace(raw, i) ==
    IF ~InBuffer(raw, i) THEN <<>>
    ELSE LET it == ScanIteration(raw, i)
         IN  <<it>> \o (IF it.next <= i THEN <<>> ELSE ScanTrace(raw, it.next))

process_output(raw) ==
    LET r == Scan(raw)
    IN  [display   |-> from_utf8_lossy(r.display_bytes),
         responses |-> r.responses,
         remainder |-> r.remainder]

(***************************************************************************)
(* The upstream reader, main.rs 224-276 (connection.rs 149-187): each read *)
(* prepends the held remainder and runs the codec.                         *)
(***************************************************************************)
\* A reader that drops what it held back.
ReaderInputNoRemainder(rem, chunk) == chunk

\* main.rs 238-244.
ReaderInput(rem, chunk) == IF rem = <<>> THEN chunk ELSE rem \o chunk

EmptyOutput == [display |-> <<>>, responses |-> <<>>, remainder |-> <<>>]

CodecIdle ==
    /\ pending = <<>>
    /\ stream = <<>>
    /\ remainder = <<>>
    /\ input = <<>>
    /\ processed = EmptyOutput
    /\ shown = <<>>
    /\ replies = <<>>
    /\ nReads = 0

(***************************************************************************)
(* The proxy's per-client session, proxy/src/main.rs.                      *)
(***************************************************************************)
MAX_RETRIES == 3

\* Bounds of the session model.
MaxConnects == 2
MaxAddrs == 2
MaxMsgs == 3
MaxUpReads == 1

ConnIds == 1..MaxConnects

\* What ws_receiver.next() can yield, by the branch that handles it: the three
\* message types, a frame the handlers ignore (unparseable text, another type, a
\* command without data, a non-text frame), and the end of the stream (Close, None).
ClientMsgs == {"reconnect", "command", "disconnect", "ignored", "close"}

\* The items of the client stream: a text frame whose JSON has one of the three
\* types, the end of the stream, and the frames no arm acts on: text that is no
\* ClientMessage, another type, a command whose data is None, a non-text frame.
ClientFrames ==
    {"reconnect", "command", "disconnect", "close",
     "unparseable", "other_type", "command_without_data", "non_text"}

IgnoredFrames == {"unparseable", "other_type", "command_without_data", "non_text"}

\* A dispatch that forwards a command whether it has data or not.
MsgKindDataOptional(f) ==
    IF f = "command_without_data" THEN "command"
    ELSE IF f \in IgnoredFrames THEN "ignored"
    ELSE f

\* The branch a frame takes: run_session 185-197, run_mud_loop 282-313 (the let-else
\* at 186/284, the match on msg_type, the `if let Some(data)` at 289, the `_ => {}`).
MsgKind(f) ==
    IF f \in IgnoredFrames THEN "ignored"
    ELSE f

\* ServerMessage::status, main.rs 53-61.
StatusMsg(connected, message) ==
    [type |-> "status", connected |-> connected, message |-> message]

MsgReady == <<"Ready to connect">>
MsgConnecting == <<"Connecting to dartmud.com:2525...">>
MsgDnsFailed == <<"DNS resolution failed">>
MsgConnected == <<"Connected to dartmud.com:2525">>
\* A retry message that counts the round to come.
MsgRetryingNextRound(k) == <<"Connection failed, retrying (k/n)...", k + 1, MAX_RETRIES>>

\* connect_to_mud 155 (connection.rs 91): "Connection failed, retrying ({attempt}/{MAX_RETRIES})...".
MsgRetrying(k) == <<"Connection failed, retrying (k/n)...", k, MAX_RETRIES>>
MsgFailed == <<"Failed to connect after n attempts", MAX_RETRIES>>
MsgDisconnected == <<"Disconnected">>

\* Events of connLog.
EvStatus(connected, message) ==
    [ev |-> "status", connected |-> connected, message |-> message, round |-> 0, addr |-> 0]
EvAttempt(round, addr) ==
    [ev |-> "attempt", connected |-> FALSE, message |-> <<>>, round |-> round, addr |-> addr]
EvResolved(n) ==
    [ev |-> "resolved", connected |-> FALSE, message |-> <<>>, round |-> 0, addr |-> n]
EvSleep(round) ==
    [ev |-> "sleep", connected |-> FALSE, message |-> <<>>, round |-> round, addr |-> 0]

\* ws_tx.send(status).await with the result ignored (117, 129, 143, 153, 163, 177,
\* 232, 269): the message is queued unless the receiver, owned by ws_send_task, has
\* been dropped.  Of the queue's content this specification keeps the last status.
SendStatus(m) == lastStatus' = IF sendTask = "done" THEN lastStatus ELSE m

\* JoinHandle::abort(): a request; the task is released by the runtime later
\* (TaskCancelled), and a task that has already ended is left alone.
AbortTask(s) == IF s = "run" THEN "aborting" ELSE s

\* A task whose future has not been dropped yet still owns what it captured.
Alive(s) == s \in {"run", "aborting"}

\* The upstream socket of connection c is open while a task owns one of its halves.
Live(c) == Alive(rstate[c]) \/ Alive(wstate[c])

ProxyIdle ==
    /\ pc = "idle"
    /\ wsClosed = FALSE
    /\ nAddrs = 0
    /\ attempt = 0
    /\ addrIdx = 0
    /\ connLog = <<>>
    /\ connResult = "idle"
    /\ nConnects = 0
    /\ nConns = 0
    /\ cur = 0
    /\ depth = 0
    /\ rstate = [c \in ConnIds |-> "unborn"]
    /\ wstate = [c \in ConnIds |-> "unborn"]
    /\ writeQ = [c \in ConnIds |-> <<>>]
    /\ sendTask = "run"
    /\ nMsgs = 0
    /\ nReconnects = 0
    /\ upReads = 0

\* No bridge is looked at in detail.
BridgeIdle ==
    /\ variant = "proxy"
    /\ backlog = [up |-> 0, out |-> 0]
    /\ upQ = <<>>
    /\ upLog = <<>>
    /\ upSent = <<>>
    /\ outQ = <<>>
    /\ outLog = <<>>
    /\ outSent = <<>>
    /\ rjob = <<>>

\* No connection is looked at in detail.
HandoverIdle ==
    /\ remOf = [c \in ConnIds |-> <<>>]
    /\ wq = [c \in ConnIds |-> <<>>]
    /\ feed = [c \in ConnIds |-> <<>>]
    /\ got = [c \in ConnIds |-> <<>>]
    /\ wrote = [c \in ConnIds |-> <<>>]
    /\ emitted = [c \in ConnIds |-> <<>>]

MaxInvokes == 3

\* The command invocations looked at; a spawn_connection call names the channel and
\* the task it creates after itself.
Invokes == 1..MaxInvokes

\* lib.rs 98-101: ConnectionState { cmd_tx: Mutex::new(None), task_handle:
\* Mutex::new(None) }, and no command invoked yet.
DesktopIdle ==
    /\ cmd_tx = 0
    /\ task_handle = 0
    /\ conn_task = [p \in Invokes |-> "unborn"]
    /\ at = [p \in Invokes |-> "new"]
    /\ kind = [p \in Invokes |-> "none"]
    /\ tx = [p \in Invokes |-> 0]
    /\ result = [p \in Invokes |-> "none"]
    /\ lastDone = 0

\* handle_connection 77-108 and run_session 177-179: the channel and ws_send_task
\* exist, the "Ready to connect" status is queued, the loop waits for a message.
Init ==
    /\ CodecIdle
    /\ ProxyIdle
    /\ BridgeIdle
    /\ HandoverIdle
    /\ DesktopIdle
    /\ lastStatus = StatusMsg(FALSE, MsgReady)

\* connect_to_mud 114-119: the "Connecting" status; the resolution is next.
StartConnect ==
    /\ nConnects < MaxConnects
    /\ nConnects' = nConnects + 1
    /\ SendStatus(StatusMsg(FALSE, MsgConnecting))
    /\ connLog' = <<EvStatus(FALSE, MsgConnecting)>>
    /\ connResult' = "pending"
    /\ pc' = "c_resolve"
    /\ UNCHANGED <<nAddrs, attempt, addrIdx>>

\* A bound that lets one round too many through.
MoreAttemptsRemainOffByOne(a) == a <= MAX_RETRIES

\* connect_to_mud 152: attempt < MAX_RETRIES (the range 1..=MAX_RETRIES of 137 ends
\* the loop otherwise).
MoreAttemptsRemain(a) == a < MAX_RETRIES

\* connect_to_mud has returned: its locals are gone.
ConnectorLocalsDropped ==
    /\ nAddrs' = 0
    /\ attempt' = 0
    /\ addrIdx' = 0

\* The handler's next step after a connect_to_mud call: the history of that call
\* is forgotten.
ForgetConnect ==
    /\ connLog' = <<>>
    /\ connResult' = "idle"
    /\ UNCHANGED <<nAddrs, attempt, addrIdx, nConnects>>

\* A handler that returns from run_session instead of waiting for the next message.
ReturnEndsSession ==
    /\ pc' = "closed"
    /\ cur' = 0
    /\ depth' = 0

\* Control is back in run_session's loop (183), every run_mud_loop frame returned:
\* the connector returned None (190-194, 303-307) or the bridge loop was left.
ReturnToIdle ==
    /\ pc' = "idle"
    /\ cur' = 0
    /\ depth' = 0

\* A bridge that ends without asking its tasks to abort.
EndBridgeKeepsTasks ==
    /\ UNCHANGED <<rstate, wstate>>
    /\ ReturnToIdle

\* Only the reader is asked to abort.
AbortBridgeTasksReaderOnly ==
    /\ rstate' = [rstate EXCEPT ![cur] = AbortTask(@)]
    /\ UNCHANGED wstate

\* mud_read_task.abort(); mud_write_task.abort(): 301-302 and 323-324.
AbortBridgeTasks ==
    /\ rstate' = [rstate EXCEPT ![cur] = AbortTask(@)]
    /\ wstate' = [wstate EXCEPT ![cur] = AbortTask(@)]

\* The break at 292/297/312/318 followed by 323-324, and the return to run_session.
EndBridge ==
    /\ AbortBridgeTasks
    /\ ReturnToIdle

\* A reader that starts with what the reader before it had held back.
NewRemainderInherited == IF cur = 0 THEN <<>> ELSE remOf[cur]

\* main.rs 226 (connection.rs 150): let mut remainder: Vec<u8> = Vec::new().
NewRemainder == <<>>

\* main.rs 210 (connection.rs 125): mpsc::channel::<Vec<u8>>(100), empty.
NewWriteChannel == <<>>

\* run_mud_loop 207-276 for the new stream: split, channel, the two tasks spawned;
\* the frame is entered from run_session (191) or from the frame before it (305).
EnterBridge ==
    LET c == nConns + 1
    IN  /\ nConns' = c
        /\ cur' = c
        /\ depth' = depth + 1
        /\ rstate' = [rstate EXCEPT ![c] = "run"]
        /\ wstate' = [wstate EXCEPT ![c] = "run"]
        /\ remOf' = [remOf EXCEPT ![c] = NewRemainder]
        /\ wq' = [wq EXCEPT ![c] = NewWriteChannel]
        /\ pc' = "bridging"

\* A success that falls through to the code after the loops.
ConnectSucceededFallsThrough(log) ==
    /\ SendStatus(StatusMsg(FALSE, MsgFailed))
    /\ connLog' = log \o <<EvStatus(TRUE, MsgConnected), EvStatus(FALSE, MsgFailed)>>
    /\ connResult' = "none"
    /\ ReturnToIdle
    /\ ConnectorLocalsDropped
    /\ UNCHANGED <<nConns, rstate, wstate, localVars>>

\* connect_to_mud 141-147: Ok(Ok(stream)): the status, return Some(stream); the
\* caller enters run_mud_loop with it (191, 305).
ConnectSucceeded(log) ==
    /\ SendStatus(StatusMsg(TRUE, MsgConnected))
    /\ connLog' = Append(log, EvStatus(TRUE, MsgConnected))
    /\ connResult' = "some"
    /\ EnterBridge
    /\ ConnectorLocalsDropped

\* A loop that keeps a command it cannot forward for the connection to come.
IdleDiscardKeepsCommand(m) ==
    /\ ForgetConnect
    /\ writeQ' = IF m = "command" /\ nConns < MaxConnects
                      THEN [writeQ EXCEPT ![nConns + 1] = Append(@, "cmd")]
                      ELSE writeQ
    /\ UNCHANGED <<pc, wsClosed, nConns, cur, depth, rstate, wstate, lastStatus, sendTask>>

\* run_session 189-194 and 197: a text message whose type is not "reconnect", or a
\* frame that is no text: nothing is done and the loop waits for the next message.
IdleDiscard(m) ==
    /\ ForgetConnect
    /\ UNCHANGED <<pc, wsClosed, nConns, cur, depth, taskVars, lastStatus, sendTask>>

\* run_session 183-199, one message.
IdleRecv(m) ==
    /\ pc = "idle"
    /\ nMsgs < MaxMsgs
    /\ m \in (IF wsClosed THEN {"close"} ELSE ClientMsgs)
    /\ nMsgs' = nMsgs + 1
    /\ nReconnects' = IF m = "reconnect" THEN nReconnects + 1 ELSE nReconnects
    /\ \/ /\ m = "reconnect"
          /\ StartConnect
          /\ UNCHANGED <<wsClosed, nConns, cur, depth, taskVars, sendTask>>
       \/ /\ m = "close"
          /\ pc' = "closed"
          /\ wsClosed' = TRUE
          /\ sendTask' = AbortTask(sendTask)
          /\ ForgetConnect
          /\ UNCHANGED <<nConns, cur, depth, taskVars, lastStatus>>
       \/ /\ m \in {"command", "disconnect", "ignored"}
          /\ IdleDiscard(m)
    /\ UNCHANGED <<upReads, codecVars, bridgeVars, handoverVars, desktopVars>>

\* A resolution whose failure arm lacks the return and goes on to the attempts.
ConnResolveFallsThrough ==
    /\ pc = "c_resolve"
    /\ \/ /\ SendStatus(StatusMsg(FALSE, MsgDnsFailed))
          /\ connLog' = Append(connLog, EvStatus(FALSE, MsgDnsFailed))
          /\ nAddrs' = 1
          /\ attempt' = 1
          /\ addrIdx' = 1
          /\ pc' = "c_attempt"
          /\ UNCHANGED <<connResult, cur, depth>>
       \/ /\ \E n \in 1..MaxAddrs :
                 /\ nAddrs' = n
                 /\ connLog' = Append(connLog, EvResolved(n))
          /\ attempt' = 1
          /\ addrIdx' = 1
          /\ pc' = "c_attempt"
          /\ UNCHANGED <<connResult, lastStatus, cur, depth>>
    /\ UNCHANGED <<wsClosed, nConnects, nConns, taskVars, sendTask, nMsgs,
                   nReconnects, upReads, codecVars, bridgeVars,
                   handoverVars, desktopVars>>

\* connect_to_mud 121-134: the resolution.
ConnResolve ==
    /\ pc = "c_resolve"
    /\ \/ /\ SendStatus(StatusMsg(FALSE, MsgDnsFailed))
          /\ connLog' = Append(connLog, EvStatus(FALSE, MsgDnsFailed))
          /\ connResult' = "none"
          /\ ReturnToIdle
          /\ ConnectorLocalsDropped
       \/ /\ \E n \in 1..MaxAddrs :
                 /\ nAddrs' = n
                 /\ connLog' = Append(connLog, EvResolved(n))
          /\ attempt' = 1
          /\ addrIdx' = 1
          /\ pc' = "c_attempt"
          /\ UNCHANGED <<connResult, lastStatus, cur, depth>>
    /\ UNCHANGED <<wsClosed, nConnects, nConns, taskVars, sendTask, nMsgs,
                   nReconnects, upReads, codecVars, bridgeVars,
                   handoverVars, desktopVars>>

\* connect_to_mud 137-169: one connection attempt and what follows it up to the
\* next await (the next attempt, the retry delay, or the return).
ConnAttempt(outcome) ==
    /\ pc = "c_attempt"
    /\ LET log == Append(connLog, EvAttempt(attempt, addrIdx))
       IN  \/ /\ outcome = "ok"
              /\ ConnectSucceeded(log)
              /\ UNCHANGED writeQ
           \/ /\ outcome \in {"refused", "timeout"}
              /\ addrIdx < nAddrs
              /\ addrIdx' = addrIdx + 1
              /\ connLog' = log
              /\ UNCHANGED <<pc, nAddrs, attempt, connResult, lastStatus, nConns, cur,
                             depth, taskVars, localVars>>
           \/ /\ outcome \in {"refused", "timeout"}
              /\ addrIdx = nAddrs
              /\ MoreAttemptsRemain(attempt)
              /\ SendStatus(StatusMsg(FALSE, MsgRetrying(attempt)))
              /\ connLog' = Append(log, EvStatus(FALSE, MsgRetrying(attempt)))
              /\ pc' = "c_sleep"
              /\ UNCHANGED <<nAddrs, attempt, addrIdx, connResult, nConns, cur, depth,
                             taskVars, localVars>>
           \/ /\ outcome \in {"refused", "timeout"}
              /\ addrIdx = nAddrs
              /\ ~MoreAttemptsRemain(attempt)
              /\ SendStatus(StatusMsg(FALSE, MsgFailed))
              /\ connLog' = Append(log, EvStatus(FALSE, MsgFailed))
              /\ connResult' = "none"
              /\ ReturnToIdle
              /\ ConnectorLocalsDropped
              /\ UNCHANGED <<nConns, taskVars, localVars>>
    /\ UNCHANGED <<wsClosed, nConnects, sendTask, nMsgs, nReconnects, upReads, codecVars,
                   bridgeVars, feed, got, wrote, emitted, desktopVars>>

\* connect_to_mud 159: the retry delay has passed; the next round starts.
ConnSleep ==
    /\ pc = "c_sleep"
    /\ connLog' = Append(connLog, EvSleep(attempt))
    /\ attempt' = attempt + 1
    /\ addrIdx' = 1
    /\ pc' = "c_attempt"
    /\ UNCHANGED <<wsClosed, nAddrs, connResult, nConnects, nConns, cur, depth, taskVars,
                   lastStatus, sendTask, nMsgs, nReconnects, upReads, codecVars, bridgeVars,
                   handoverVars, desktopVars>>

\* run_mud_loop 281-314: the select arm for a client message.
BridgeRecv(m) ==
    /\ pc = "bridging"
    /\ nMsgs < MaxMsgs
    /\ m \in (IF wsClosed THEN {"close"} ELSE ClientMsgs)
    /\ nMsgs' = nMsgs + 1
    /\ nReconnects' = IF m = "reconnect" THEN nReconnects + 1 ELSE nReconnects
    /\ \/ /\ m = "command"
          /\ wstate[cur] # "done"
          /\ writeQ' = [writeQ EXCEPT ![cur] = Append(@, "cmd")]
          /\ ForgetConnect
          /\ UNCHANGED <<pc, wsClosed, cur, depth, rstate, wstate, lastStatus>>
       \/ /\ m = "command"
          /\ wstate[cur] = "done"
          /\ EndBridge
          /\ ForgetConnect
          /\ UNCHANGED <<wsClosed, writeQ, lastStatus>>
       \/ /\ m = "disconnect"
          /\ EndBridge
          /\ ForgetConnect
          /\ UNCHANGED <<wsClosed, writeQ, lastStatus>>
       \/ /\ m = "reconnect"
          /\ AbortBridgeTasks
          /\ StartConnect
          /\ UNCHANGED <<wsClosed, cur, depth, writeQ>>
       \/ /\ m = "close"
          /\ wsClosed' = TRUE
          /\ EndBridge
          /\ ForgetConnect
          /\ UNCHANGED <<writeQ, lastStatus>>
       \/ /\ m = "ignored"
          /\ ForgetConnect
          /\ UNCHANGED <<pc, wsClosed, cur, depth, taskVars, lastStatus>>
    /\ UNCHANGED <<nConns, sendTask, upReads, codecVars, bridgeVars,
                   handoverVars, desktopVars>>

\* A bridge that connects again by itself when its reader has ended.
BridgeReaderFinishedReconnects ==
    /\ pc = "bridging"
    /\ rstate[cur] = "done"
    /\ rstate' = [rstate EXCEPT ![cur] = AbortTask(@)]
    /\ wstate' = [wstate EXCEPT ![cur] = AbortTask(@)]
    /\ StartConnect
    /\ UNCHANGED <<wsClosed, nConns, cur, depth, writeQ, sendTask, nMsgs, nReconnects,
                   upReads, codecVars, bridgeVars, handoverVars, desktopVars>>

\* run_mud_loop 316-319 with is_finished_signal 333-337: the reader task has ended.
BridgeReaderFinished ==
    /\ pc = "bridging"
    /\ rstate[cur] = "done"
    /\ EndBridge
    /\ ForgetConnect
    /\ UNCHANGED <<wsClosed, nConns, writeQ, lastStatus, sendTask, nMsgs, nReconnects,
                   upReads, codecVars, bridgeVars, handoverVars, desktopVars>>

\* mud_read_task 229-236 and 267-273: Ok(0) or Err.
ReaderEnd(c) ==
    /\ Alive(rstate[c])
    /\ SendStatus(StatusMsg(FALSE, MsgDisconnected))
    /\ rstate' = [rstate EXCEPT ![c] = "done"]
    /\ UNCHANGED <<pc, wsClosed, connectVars, nConns, cur, depth, wstate, writeQ,
                   sendTask, nMsgs, nReconnects, upReads, codecVars, bridgeVars,
                   handoverVars, desktopVars>>

\* mud_read_task 237-265: Ok(n); the codec's result is abstracted to the number of
\* replies and whether the display text is empty.  A failed send (the writer's
\* receiver or ws_send_task's receiver dropped) ends the task (252, 263).
ReaderData(c, nReplies, hasDisplay) ==
    /\ Alive(rstate[c])
    /\ upReads < MaxUpReads
    /\ upReads' = upReads + 1
    /\ IF nReplies > 0 /\ wstate[c] = "done" THEN
           /\ rstate' = [rstate EXCEPT ![c] = "done"]
           /\ UNCHANGED writeQ
       ELSE
           /\ writeQ' = [writeQ EXCEPT ![c] = @ \o [k \in 1..nReplies |-> "reply"]]
           /\ rstate' = IF hasDisplay /\ sendTask = "done"
                            THEN [rstate EXCEPT ![c] = "done"]
                            ELSE rstate
    /\ UNCHANGED <<pc, wsClosed, connectVars, nConns, cur, depth, wstate, lastStatus,
                   sendTask, nMsgs, nReconnects, codecVars, bridgeVars,
                   handoverVars, desktopVars>>

\* mud_write_task 214-220: one item taken and written, or the write failing.
WriterWrite(c, ok) ==
    /\ Alive(wstate[c])
    /\ writeQ[c] # <<>>
    /\ writeQ' = [writeQ EXCEPT ![c] = Tail(@)]
    /\ wstate' = IF ok THEN wstate ELSE [wstate EXCEPT ![c] = "done"]
    /\ UNCHANGED <<pc, wsClosed, connectVars, nConns, cur, depth, rstate, lastStatus,
                   sendTask, nMsgs, nReconnects, upReads, codecVars, bridgeVars,
                   handoverVars, desktopVars>>

\* The runtime drops a task that was asked to abort (tokio JoinHandle::abort).
TaskCancelled(c) ==
    /\ \/ /\ rstate[c] = "aborting"
          /\ rstate' = [rstate EXCEPT ![c] = "done"]
          /\ UNCHANGED wstate
       \/ /\ wstate[c] = "aborting"
          /\ wstate' = [wstate EXCEPT ![c] = "done"]
          /\ UNCHANGED rstate
    /\ UNCHANGED <<pc, wsClosed, connectVars, nConns, cur, depth, writeQ, lastStatus,
                   sendTask, nMsgs, nReconnects, upReads, codecVars, bridgeVars,
                   handoverVars, desktopVars>>

\* ws_send_task 92-105 leaves its loop: sending a message to the client failed
\* (101-103).  Which message it was is not kept: the task may be as late as it
\* likes with the messages queued since "Ready to connect".
WsSendFails ==
    /\ Alive(sendTask)
    /\ sendTask' = "done"
    /\ UNCHANGED <<pc, wsClosed, connectVars, nConns, cur, depth, taskVars, lastStatus,
                   nMsgs, nReconnects, upReads, codecVars, bridgeVars,
                   handoverVars, desktopVars>>

\* handle_connection 111: ws_send_task.abort() taking effect.
SendTaskCancelled ==
    /\ sendTask = "aborting"
    /\ sendTask' = "done"
    /\ UNCHANGED <<pc, wsClosed, connectVars, nConns, cur, depth, taskVars, lastStatus,
                   nMsgs, nReconnects, upReads, codecVars, bridgeVars,
                   handoverVars, desktopVars>>

Next ==
    \/ \E f \in ClientFrames : IdleRecv(MsgKind(f))
    \/ ConnResolve
    \/ \E outcome \in {"ok", "refused", "timeout"} : ConnAttempt(outcome)
    \/ ConnSleep
    \/ \E f \in ClientFrames : BridgeRecv(MsgKind(f))
    \/ BridgeReaderFinished
    \/ \E c \in ConnIds : ReaderEnd(c)
    \/ \E c \in ConnIds, nReplies \in 0..1, hasDisplay \in BOOLEAN :
           ReaderData(c, nReplies, hasDisplay)
    \/ \E c \in ConnIds, ok \in BOOLEAN : WriterWrite(c, ok)
    \/ \E c \in ConnIds : TaskCancelled(c)
    \/ WsSendFails
    \/ SendTaskCancelled

Spec == Init /\ [][Next]_vars

(***************************************************************************)
(* The codec under the reader: the server's bytes arrive in reads of any   *)
(* size.                                                                   *)
(***************************************************************************)
CodecInit ==
    /\ pending \in Inputs
    /\ stream = <<>>
    /\ remainder = <<>>
    /\ input = <<>>
    /\ processed = EmptyOutput
    /\ shown = <<>>
    /\ replies = <<>>
    /\ nReads = 0
    /\ ProxyIdle
    /\ BridgeIdle
    /\ HandoverIdle
    /\ DesktopIdle
    /\ lastStatus = StatusMsg(FALSE, MsgReady)

\* Ok(n), n > 0: main.rs 237-247 (the input, the codec, the new remainder); shown
\* and replies collect what 250-265 hand on.
ReadChunk(n) ==
    /\ n \in 1..Len(pending)
    /\ LET chunk == SubSeq(pending, 1, n)
           inp   == ReaderInput(remainder, chunk)
           out   == process_output(inp)
       IN  /\ input' = inp
           /\ processed' = out
           /\ remainder' = out.remainder
           /\ replies' = replies \o out.responses
           /\ shown' = shown \o out.display
           /\ stream' = stream \o chunk
           /\ pending' = SubSeq(pending, n + 1, Len(pending))
           /\ nReads' = nReads + 1
    /\ UNCHANGED <<proxyVars, bridgeVars, handoverVars, desktopVars>>

CodecNext == \E n \in 1..(MaxLen + 8) : ReadChunk(n)

CodecSpec == CodecInit /\ [][CodecNext]_vars

(***************************************************************************)
(* One bridge in detail: run_mud_loop 202-325 with ws_send_task 92-105     *)
(* (proxy), and connect 122-198 (desktop).  The bytes of the server pass   *)
(* the codec and reach the client; commands and replies pass the write     *)
(* channel and reach the server.  The channels are FIFO queues of          *)
(* capacity 100; a send on a full channel waits.                           *)
(***************************************************************************)
\* mpsc::channel(100): main.rs 89 and 210, connection.rs 125.
CHANNEL_CAPACITY == 100

\* Telnet go-ahead.
GA == 249

MaxCommands == 1

\* "look" and "n".
CommandTexts == {<<108, 111, 111, 107>>, <<110>>}

\* What the server sends during the bridge: "R" and a go-ahead; a negotiation and
\* "B"; "AB" with no go-ahead.
ServerSends ==
    { <<82, IAC, GA>>, <<IAC, DO, 6, 66>>, <<65, 66>> }

\* ServerMessage::output, main.rs 43-51, and ServerMessage::status, 53-61; a field
\* that is None holds FALSE or <<>> here.
ServerMessage_output(data, ga) ==
    [type |-> "output", data |-> data, ga |-> ga, connected |-> FALSE, message |-> <<>>]

ServerMessage_status(connected, message) ==
    [type |-> "status", data |-> <<>>, ga |-> FALSE, connected |-> connected,
     message |-> message]

\* The ga field of the proxy codec's result: the scan of this call met a go-ahead
\* command.
process_output_ga(raw) ==
    \E p \in 0..(Len(raw) - 2) :
        /\ Scan(SubSeq(raw, 1, p)).remainder = <<>>
        /\ raw[p + 1] = IAC
        /\ raw[p + 2] = GA

\* A command forwarded without the line terminator.
CommandBytesNoTerminator(t) == t

\* main.rs 290 (connection.rs 141): format!("{data}\r\n").into_bytes().
CommandBytes(t) == t \o <<13, 10>>

\* A receive that hands out the newest item.
ChannelRecvNewest(q) == [item |-> q[Len(q)], rest |-> SubSeq(q, 1, Len(q) - 1)]

\* recv() on a channel: main.rs 93 and 215, connection.rs 130: the oldest item.
ChannelRecv(q) == [item |-> Head(q), rest |-> Tail(q)]

\* send().await completes only when the channel has room.
ChannelFull(q) == Len(q) >= CHANNEL_CAPACITY

UpJob(bytes) == [to |-> "up", bytes |-> bytes, msg |-> ServerMessage_output(<<>>, FALSE)]

OutJob(msg) == [to |-> "out", bytes |-> <<>>, msg |-> msg]

\* A reader that sends an output message for every read, empty text or not.
ReaderJobsAlwaysOutput(out, ga) ==
    [k \in 1..Len(out.responses) |-> UpJob(out.responses[k])]
        \o <<OutJob(ServerMessage_output(out.display, ga))>>

\* main.rs 249-265 (connection.rs 170-180): the sends one read leads to: every
\* response, then the display text if it is not empty.  The desktop's payload has no
\* go-ahead field.
ReaderJobs(out, ga) ==
    [k \in 1..Len(out.responses) |-> UpJob(out.responses[k])]
        \o (IF out.display # <<>>
                THEN <<OutJob(ServerMessage_output(out.display, ga))>>
                ELSE <<>>)

BacklogUp(k) == [i \in 1..k |-> CommandBytes(<<110>>)]

BacklogOut(k) == [i \in 1..k |-> ServerMessage_output(<<66>>, FALSE)]

\* A bridge that has just started, or one whose consumer has been slow: one of the
\* channels may be one item short of full.
BridgeInit ==
    /\ variant \in {"proxy", "desktop"}
    /\ backlog \in {[up |-> 0, out |-> 0], [up |-> CHANNEL_CAPACITY - 1, out |-> 0],
                    [up |-> 0, out |-> CHANNEL_CAPACITY - 1]}
    /\ variant = "desktop" => backlog.out = 0
    /\ upQ = BacklogUp(backlog.up)
    /\ upLog = upQ
    /\ upSent = <<>>
    /\ outQ = BacklogOut(backlog.out)
    /\ outLog = outQ
    /\ outSent = <<>>
    /\ rjob = <<>>
    /\ pending \in ServerSends
    /\ stream = <<>>
    /\ remainder = <<>>
    /\ input = <<>>
    /\ processed = EmptyOutput
    /\ shown = <<>>
    /\ replies = <<>>
    /\ nReads = 0
    /\ pc = "bridging"
    /\ wsClosed = FALSE
    /\ nAddrs = 0
    /\ attempt = 0
    /\ addrIdx = 0
    /\ connLog = <<>>
    /\ connResult = "idle"
    /\ nConnects = 1
    /\ nConns = 1
    /\ cur = 1
    /\ depth = 1
    /\ rstate = [c \in ConnIds |-> IF c = 1 THEN "run" ELSE "unborn"]
    /\ wstate = [c \in ConnIds |-> IF c = 1 THEN "run" ELSE "unborn"]
    /\ writeQ = [c \in ConnIds |-> <<>>]
    /\ lastStatus = StatusMsg(TRUE, MsgConnected)
    /\ sendTask = "run"
    /\ nMsgs = 1 + backlog.up
    /\ nReconnects = 1
    /\ upReads = 0
    /\ HandoverIdle
    /\ DesktopIdle

\* run_mud_loop 288-295 (desktop: cmd_handle, connection.rs 139-146): a command with
\* text t.  The send fails when the writer has ended: the select loop is left and
\* both tasks are asked to abort (desktop: cmd_handle ends).
BrCommand(t) ==
    /\ pc = "bridging"
    /\ nMsgs < 1 + backlog.up + MaxCommands
    /\ nMsgs' = nMsgs + 1
    /\ IF wstate[1] = "done" THEN
           /\ IF variant = "proxy" THEN EndBridge
              ELSE ReturnToIdle /\ UNCHANGED <<rstate, wstate>>
           /\ UNCHANGED <<upQ, upLog>>
       ELSE
           /\ ~ChannelFull(upQ)
           /\ upQ' = Append(upQ, CommandBytes(t))
           /\ upLog' = Append(upLog, CommandBytes(t))
           /\ UNCHANGED <<pc, cur, depth, rstate, wstate>>
    /\ UNCHANGED <<wsClosed, connectVars, nConns, writeQ, lastStatus, sendTask,
                   nReconnects, upReads, codecVars, variant, backlog, upSent, outQ,
                   outLog, outSent, rjob, handoverVars, desktopVars>>

\* mud_read_task 237-247 (connection.rs 157-168): Ok(n), the codec, the new
\* remainder; the sends follow one by one (BrReaderSend).
BrRead(n) ==
    /\ Alive(rstate[1])
    /\ rjob = <<>>
    /\ n \in 1..Len(pending)
    /\ LET chunk == SubSeq(pending, 1, n)
           inp   == ReaderInput(remainder, chunk)
           out   == process_output(inp)
           ga    == IF variant = "proxy" THEN process_output_ga(inp) ELSE FALSE
       IN  /\ input' = inp
           /\ processed' = out
           /\ remainder' = out.remainder
           /\ replies' = replies \o out.responses
           /\ shown' = shown \o out.display
           /\ stream' = stream \o chunk
           /\ pending' = SubSeq(pending, n + 1, Len(pending))
           /\ nReads' = nReads + 1
           /\ rjob' = ReaderJobs(out, ga)
    /\ UNCHANGED <<proxyVars, variant, backlog, upQ, upLog, upSent, outQ, outLog, outSent,
                   handoverVars, desktopVars>>

\* Writes to the server and messages to the client that are followed.
MaxWrites == 2

MaxForwards == 2

\* main.rs 250-254: mud_write_tx.send(response) failed: return, the task ends.
ReplySendFailedReturns ==
    /\ rjob' = <<>>
    /\ rstate' = [rstate EXCEPT ![1] = "done"]

\* connection.rs 171-175: write_tx.send(response) failed: break, which leaves the
\* for loop over the responses; the read loop goes on.
ReplySendFailedDesktop ==
    /\ rjob' = SelectSeq(Tail(rjob), LAMBDA j : j.to # "up")
    /\ UNCHANGED rstate

\* mud_read_task 249-265 (connection.rs 170-180): the next send of the read in hand.
BrReaderSend ==
    /\ Alive(rstate[1])
    /\ rjob # <<>>
    /\ LET j == Head(rjob)
       IN  IF j.to = "up" THEN
               /\ IF wstate[1] = "done" THEN
                      /\ IF variant = "proxy" THEN ReplySendFailedReturns
                         ELSE ReplySendFailedDesktop
                      /\ UNCHANGED <<upQ, upLog>>
                  ELSE
                      /\ ~ChannelFull(upQ)
                      /\ upQ' = Append(upQ, j.bytes)
                      /\ upLog' = Append(upLog, j.bytes)
                      /\ rjob' = Tail(rjob)
                      /\ UNCHANGED rstate
               /\ UNCHANGED <<outQ, outLog, outSent>>
           ELSE
               /\ IF variant = "desktop" THEN
                      \* app.emit(MUD_OUTPUT_EVENT, ...), connection.rs 178-180
                      /\ outLog' = Append(outLog, j.msg)
                      /\ outSent' = Append(outSent, j.msg)
                      /\ rjob' = Tail(rjob)
                      /\ UNCHANGED <<outQ, rstate>>
                  ELSE IF sendTask = "done" THEN
                      \* main.rs 258-264: the send failed: return
                      /\ rjob' = <<>>
                      /\ rstate' = [rstate EXCEPT ![1] = "done"]
                      /\ UNCHANGED <<outQ, outLog, outSent>>
                  ELSE
                      /\ ~ChannelFull(outQ)
                      /\ outQ' = Append(outQ, j.msg)
                      /\ outLog' = Append(outLog, j.msg)
                      /\ rjob' = Tail(rjob)
                      /\ UNCHANGED <<outSent, rstate>>
               /\ UNCHANGED <<upQ, upLog>>
    /\ UNCHANGED <<pc, wsClosed, connectVars, nConns, cur, depth, wstate, writeQ,
                   lastStatus, sendTask, nMsgs, nReconnects, upReads, codecVars, variant,
                   backlog, upSent, handoverVars, desktopVars>>

\* A reader that reports the connection as still up when it ends.
ReaderEndStatusConnected == ServerMessage_status(TRUE, MsgDisconnected)

\* main.rs 233 and 270 (connection.rs 194-197): the status of the reader's end.
ReaderEndStatus == ServerMessage_status(FALSE, MsgDisconnected)

\* mud_read_task 229-236 and 267-273: Ok(0) or Err after the server's last byte: the
\* "Disconnected" status, its send result ignored, and the task ends.  Desktop
\* (connection.rs 153-156, 182-198): the loop is left, cmd_handle and write_handle
\* are asked to abort, the status is emitted.
BrReaderEnd ==
    /\ Alive(rstate[1])
    /\ rjob = <<>>
    /\ pending = <<>>
    /\ rstate' = [rstate EXCEPT ![1] = "done"]
    /\ LET m == ReaderEndStatus
       IN  IF variant = "desktop" THEN
               /\ outLog' = Append(outLog, m)
               /\ outSent' = Append(outSent, m)
               /\ wstate' = [wstate EXCEPT ![1] = AbortTask(@)]
               /\ ReturnToIdle
               /\ UNCHANGED outQ
           ELSE IF sendTask = "done" THEN
               UNCHANGED <<outQ, outLog, outSent, wstate, pc, cur, depth>>
           ELSE
               /\ ~ChannelFull(outQ)
               /\ outQ' = Append(outQ, m)
               /\ outLog' = Append(outLog, m)
               /\ UNCHANGED <<outSent, wstate, pc, cur, depth>>
    /\ UNCHANGED <<wsClosed, connectVars, nConns, writeQ, lastStatus, sendTask, nMsgs,
                   nReconnects, upReads, codecVars, variant, backlog, upQ, upLog, upSent,
                   rjob, handoverVars, desktopVars>>

\* mud_write_task 214-220 (connection.rs 129-136): the oldest buffer is taken and
\* written in full, or write_all fails and the task ends (what a failed write_all
\* has put on the wire, a part of that buffer, is not kept).
BrWrite(ok) ==
    /\ Alive(wstate[1])
    /\ upQ # <<>>
    /\ Len(upSent) < MaxWrites
    /\ LET r == ChannelRecv(upQ)
       IN  /\ upQ' = r.rest
           /\ upSent' = IF ok THEN Append(upSent, r.item) ELSE upSent
    /\ wstate' = IF ok THEN wstate ELSE [wstate EXCEPT ![1] = "done"]
    /\ UNCHANGED <<pc, wsClosed, connectVars, nConns, cur, depth, rstate, writeQ,
                   lastStatus, sendTask, nMsgs, nReconnects, upReads, codecVars, variant,
                   backlog, upLog, outQ, outLog, outSent, rjob,
                   handoverVars, desktopVars>>

\* ws_send_task 92-105: the oldest message is taken, serialised and sent to the
\* client, or the send fails and the task ends.
BrWsForward(ok) ==
    /\ variant = "proxy"
    /\ sendTask = "run"
    /\ outQ # <<>>
    /\ Len(outSent) < MaxForwards
    /\ LET r == ChannelRecv(outQ)
       IN  /\ outQ' = r.rest
           /\ outSent' = IF ok THEN Append(outSent, r.item) ELSE outSent
    /\ sendTask' = IF ok THEN sendTask ELSE "done"
    /\ UNCHANGED <<pc, wsClosed, connectVars, nConns, cur, depth, taskVars, lastStatus,
                   nMsgs, nReconnects, upReads, codecVars, variant, backlog, upQ, upLog,
                   upSent, outLog, rjob, handoverVars, desktopVars>>

BridgeNext ==
    \/ \E t \in CommandTexts : BrCommand(t)
    \/ \E n \in 1..7 : BrRead(n)
    \/ BrReaderSend
    \/ BrReaderEnd
    \/ \E ok \in BOOLEAN : BrWrite(ok)
    \/ \E ok \in BOOLEAN : BrWsForward(ok)
    \/ BridgeReaderFinished

BridgeSpec == BridgeInit /\ [][BridgeNext]_vars

\* The select! of run_mud_loop polls is_finished_signal in every iteration and that
\* future wakes every 100 ms (333-337): a finished reader is noticed.  The runtime
\* schedules every spawned task that can go on: a send of the reader that can
\* complete does, and so do a write of the writer and a forward of ws_send_task.
\* Nothing obliges the server to send or to close, or the client to send.
FairBridgeSpec ==
    /\ BridgeSpec
    /\ WF_vars(BridgeReaderFinished)
    /\ WF_vars(BrReaderSend)
    /\ WF_vars(\E ok \in BOOLEAN : BrWrite(ok))
    /\ WF_vars(\E ok \in BOOLEAN : BrWsForward(ok))

(***************************************************************************)
(* The handover from one connection to the next: a bridge runs, the client *)
(* sends commands and a reconnect, the connector succeeds and a new bridge *)
(* runs while the tasks of the old one, asked to abort, may still be       *)
(* scheduled.  Every connection has its own server, reader and writer.     *)
(***************************************************************************)
\* What a server sends: a negotiation followed by the first byte of a sequence, or
\* an option byte and "B".
Feeds == { <<IAC, DO, 6, IAC>>, <<6, 66>> }

\* An item of a write channel: the connection it was enqueued for, and its bytes.
WriteItem(c, bytes) == [conn |-> c, bytes |-> bytes]

HandoverInit ==
    /\ CodecIdle
    /\ BridgeIdle
    /\ pc = "bridging"
    /\ wsClosed = FALSE
    /\ nAddrs = 0
    /\ attempt = 0
    /\ addrIdx = 0
    /\ connLog = <<>>
    /\ connResult = "idle"
    /\ nConnects = 1
    /\ nConns = 1
    /\ cur = 1
    /\ depth = 1
    /\ rstate = [c \in ConnIds |-> IF c = 1 THEN "run" ELSE "unborn"]
    /\ wstate = [c \in ConnIds |-> IF c = 1 THEN "run" ELSE "unborn"]
    /\ writeQ = [c \in ConnIds |-> <<>>]
    /\ lastStatus = StatusMsg(TRUE, MsgConnected)
    /\ sendTask = "run"
    /\ nMsgs = 1
    /\ nReconnects = 1
    /\ upReads = 0
    /\ remOf = [c \in ConnIds |-> <<>>]
    /\ wq = [c \in ConnIds |-> <<>>]
    /\ feed \in [ConnIds -> Feeds]
    /\ got = [c \in ConnIds |-> <<>>]
    /\ wrote = [c \in ConnIds |-> <<>>]
    /\ emitted = [c \in ConnIds |-> <<>>]
    /\ DesktopIdle

\* run_mud_loop 288-295: a command with text t, the write channel of the bridge in
\* progress being open.
HoCommand(t) ==
    /\ pc = "bridging"
    /\ nMsgs < MaxMsgs
    /\ wstate[cur] # "done"
    /\ nMsgs' = nMsgs + 1
    /\ wq' = [wq EXCEPT ![cur] = Append(@, WriteItem(cur, CommandBytes(t)))]
    /\ UNCHANGED <<pc, wsClosed, connectVars, nConns, cur, depth, taskVars, lastStatus,
                   sendTask, nReconnects, upReads, codecVars, bridgeVars, remOf, feed,
                   got, wrote, emitted, desktopVars>>

\* mud_read_task 237-265 of connection c: Ok(n), the codec, the new remainder, the
\* replies to this connection's write channel (the task ends when it is closed),
\* then the display text, if any, to the outbox.
HoRead(c, n) ==
    /\ Alive(rstate[c])
    /\ n \in 1..Len(feed[c])
    /\ LET chunk == SubSeq(feed[c], 1, n)
           out   == process_output(ReaderInput(remOf[c], chunk))
       IN  /\ remOf' = [remOf EXCEPT ![c] = out.remainder]
           /\ got' = [got EXCEPT ![c] = @ \o chunk]
           /\ feed' = [feed EXCEPT ![c] = SubSeq(@, n + 1, Len(@))]
           /\ IF out.responses # <<>> /\ wstate[c] = "done" THEN
                  /\ rstate' = [rstate EXCEPT ![c] = "done"]
                  /\ UNCHANGED <<wq, emitted>>
              ELSE
                  /\ wq' = [wq EXCEPT ![c] =
                               @ \o [k \in 1..Len(out.responses) |->
                                        WriteItem(c, out.responses[k])]]
                  /\ emitted' = IF out.display # <<>>
                                    THEN [emitted EXCEPT ![c] =
                                             Append(@, ServerMessage_output(out.display,
                                                 process_output_ga(ReaderInput(remOf[c], chunk))))]
                                    ELSE emitted
                  /\ UNCHANGED rstate
    /\ UNCHANGED <<pc, wsClosed, connectVars, nConns, cur, depth, wstate, writeQ,
                   lastStatus, sendTask, nMsgs, nReconnects, upReads, codecVars,
                   bridgeVars, wrote, desktopVars>>

\* mud_read_task 229-236 and 267-273 of connection c: Ok(0) or Err after the
\* server's last byte: the "Disconnected" status to the outbox, and the task ends.
HoReaderEnd(c) ==
    /\ Alive(rstate[c])
    /\ feed[c] = <<>>
    /\ rstate' = [rstate EXCEPT ![c] = "done"]
    /\ emitted' = [emitted EXCEPT ![c] = Append(@, ReaderEndStatus)]
    /\ UNCHANGED <<pc, wsClosed, connectVars, nConns, cur, depth, wstate, writeQ,
                   lastStatus, sendTask, nMsgs, nReconnects, upReads, codecVars,
                   bridgeVars, remOf, wq, feed, got, wrote, desktopVars>>

\* mud_write_task 214-220 of connection c: the oldest item of its channel is written
\* to its socket.
HoWrite(c) ==
    /\ Alive(wstate[c])
    /\ wq[c] # <<>>
    /\ LET r == ChannelRecv(wq[c])
       IN  /\ wq' = [wq EXCEPT ![c] = r.rest]
           /\ wrote' = [wrote EXCEPT ![c] = Append(@, r.item)]
    /\ UNCHANGED <<pc, wsClosed, connectVars, nConns, cur, depth, taskVars, lastStatus,
                   sendTask, nMsgs, nReconnects, upReads, codecVars, bridgeVars, remOf,
                   feed, got, emitted, desktopVars>>

HandoverNext ==
    \/ \E t \in CommandTexts : HoCommand(t)
    \/ \E c \in ConnIds, n \in 1..4 : HoRead(c, n)
    \/ \E c \in ConnIds : HoWrite(c)
    \/ \E c \in ConnIds : HoReaderEnd(c)
    \/ BridgeReaderFinished
    \/ BridgeRecv("reconnect")
    \/ ConnResolve
    \/ ConnAttempt("ok")
    \/ \E c \in ConnIds : TaskCancelled(c)

HandoverSpec == HandoverInit /\ [][HandoverNext]_vars

(***************************************************************************)
(* Properties of the codec, stated for CodecSpec.                          *)
(***************************************************************************)
\* The prefix of the last input is consumed in full by a scan of its own, so the
\* scan of the whole input stands at position p + 1.
ScanPosition(p) == Scan(SubSeq(input, 1, p)).remainder = <<>>

\* C1: Reassembly invariant: feeding S[0..k] and then (remainder ++ S[k..]) gives,
\* with the two display texts and the two reply lists concatenated, the display and
\* the replies of one call on the whole of S.
C1_Reassembly ==
    (nReads = 2 /\ pending = <<>>) =>
        /\ shown = process_output(stream).display
        /\ replies = process_output(stream).responses

\* C2: Negotiation replies: a complete IAC DO o at a scan position adds exactly the
\* reply [IAC, WONT, o], IAC WILL o adds exactly [IAC, DONT, o], IAC WONT o and
\* IAC DONT o add none; the command consumes exactly 3 bytes (the scan goes on at the
\* byte after the option), and the replies keep the order of the commands.
C2_ExpectedReply(cmd, option) ==
    IF cmd = 253 THEN << <<255, 252, option>> >>
    ELSE IF cmd = 251 THEN << <<255, 254, option>> >>
    ELSE <<>>

C2_NegotiationReplies ==
    \A p \in 0..(Len(input) - 3) :
        (/\ ScanPosition(p)
         /\ input[p + 1] = 255
         /\ input[p + 2] \in {251, 252, 253, 254}) =>
            LET before == Scan(SubSeq(input, 1, p))
                after  == Scan(SubSeq(input, p + 4, Len(input)))
            IN  /\ processed.responses =
                       before.responses \o C2_ExpectedReply(input[p + 2], input[p + 3])
                           \o after.responses
                /\ processed.display =
                       from_utf8_lossy(before.display_bytes \o after.display_bytes)
                /\ processed.remainder = after.remainder

\* C2 witness: two commands in one input, both answered, in input order.
C2_Witness ==
    /\ input = <<255, 253, 6, 255, 251, 1>>
    /\ processed.responses = << <<255, 252, 6>>, <<255, 254, 1>> >>

\* C3: Incomplete trailing sequence: when the scan reaches an IAC whose sequence the
\* buffer cannot complete (a lone IAC, IAC + DO/WILL/WONT/DONT without option, IAC SB
\* with no IAC SE after it), the remainder is exactly the bytes from that IAC to the
\* end, and display and replies are those of the bytes before it.
C3_IncompleteTail(t) ==
    /\ Len(t) >= 1
    /\ t[1] = 255
    /\ \/ Len(t) = 1
       \/ Len(t) = 2 /\ t[2] \in {251, 252, 253, 254}
       \/ /\ Len(t) >= 2
          /\ t[2] = 250
          /\ \A j \in 3..(Len(t) - 1) : ~(t[j] = 255 /\ t[j + 1] = 240)

C3_IncompleteTrailing ==
    \A p \in 0..(Len(input) - 1) :
        (ScanPosition(p) /\ C3_IncompleteTail(SubSeq(input, p + 1, Len(input)))) =>
            LET before == Scan(SubSeq(input, 1, p))
            IN  /\ processed.remainder = SubSeq(input, p + 1, Len(input))
                /\ processed.display = from_utf8_lossy(before.display_bytes)
                /\ processed.responses = before.responses

\* C3 witness: process([0x41, IAC]) gives display "A" and remainder [IAC].
C3_Witness ==
    /\ input = <<65, 255>>
    /\ processed = [display |-> <<65>>, responses |-> <<>>, remainder |-> <<255>>]

\* C4 as stated: IAC IAC decodes to exactly one literal 0xFF byte in display, with no
\* replies and an empty remainder.
C4_LiteralEscapeStated ==
    (input = <<255, 255>>) =>
        processed = [display |-> <<255>>, responses |-> <<>>, remainder |-> <<>>]

\* C4 as amended: IAC IAC puts exactly one 0xFF byte into the display bytes, which
\* the lossy text conversion renders as one U+FFFD (EF BF BD) in display; no
\* replies, empty remainder.
C4_LiteralEscape ==
    (input = <<255, 255>>) =>
        /\ Scan(input).display_bytes = <<255>>
        /\ processed = [display |-> <<239, 191, 189>>, responses |-> <<>>,
                        remainder |-> <<>>]

C4_Witness ==
    /\ input = <<255, 255>>
    /\ nReads = 1
    /\ processed.display = <<239, 191, 189>>

\* C5: Subnegotiation skip: a block IAC SB ... IAC SE that ends inside the buffer is
\* discarded in full, produces no reply, and the scan resumes right after the SE.
C5_Block(p, q) ==
    /\ q >= p + 4
    /\ input[p + 1] = 255
    /\ input[p + 2] = 250
    /\ input[q - 1] = 255
    /\ input[q] = 240
    /\ \A j \in (p + 3)..(q - 2) : ~(input[j] = 255 /\ input[j + 1] = 240)

C5_SubnegotiationSkip ==
    \A p \in 0..Len(input) : \A q \in 1..Len(input) :
        (ScanPosition(p) /\ C5_Block(p, q)) =>
            LET before == Scan(SubSeq(input, 1, p))
                after  == Scan(SubSeq(input, q + 1, Len(input)))
            IN  /\ processed.display =
                       from_utf8_lossy(before.display_bytes \o after.display_bytes)
                /\ processed.responses = before.responses \o after.responses
                /\ processed.remainder = after.remainder

\* C5 witness: process([IAC,SB,24,0,IAC,SE,0x42]) gives display "B", no replies,
\* empty remainder.
C5_Witness ==
    /\ input = <<255, 250, 24, 0, 255, 240, 66>>
    /\ processed = [display |-> <<66>>, responses |-> <<>>, remainder |-> <<>>]

(***************************************************************************)
(* Properties of the session, stated for Spec.                             *)
(***************************************************************************)
Connecting == pc \in {"c_resolve", "c_attempt", "c_sleep"}

\* C6: Retry bound: when the resolution succeeds and every attempt fails, the
\* connector makes exactly 3 rounds, each trying every resolved address once in
\* order, sleeps exactly twice (after rounds 1 and 2, not after round 3), then emits
\* one status(false, "Failed to connect after 3 attempts") and returns no connection.
C6_Round(k, n) ==
    [a \in 1..n |->
        [ev |-> "attempt", connected |-> FALSE, message |-> <<>>, round |-> k, addr |-> a]]

C6_Retry(k) ==
    << [ev |-> "status", connected |-> FALSE,
        message |-> <<"Connection failed, retrying (k/n)...", k, 3>>,
        round |-> 0, addr |-> 0],
       [ev |-> "sleep", connected |-> FALSE, message |-> <<>>, round |-> k, addr |-> 0] >>

C6_ExpectedLog(n) ==
    << [ev |-> "status", connected |-> FALSE,
        message |-> <<"Connecting to dartmud.com:2525...">>, round |-> 0, addr |-> 0],
       [ev |-> "resolved", connected |-> FALSE, message |-> <<>>, round |-> 0, addr |-> n] >>
    \o C6_Round(1, n) \o C6_Retry(1)
    \o C6_Round(2, n) \o C6_Retry(2)
    \o C6_Round(3, n)
    \o << [ev |-> "status", connected |-> FALSE,
           message |-> <<"Failed to connect after n attempts", 3>>,
           round |-> 0, addr |-> 0] >>

C6_RetryBound ==
    (connResult = "none" /\ Len(connLog) >= 2 /\ connLog[2].ev = "resolved") =>
        /\ connLog = C6_ExpectedLog(connLog[2].addr)
        /\ pc = "idle"
        /\ cur = 0

\* C6 witness: a call that failed on two resolved addresses in all three rounds.
C6_Witness ==
    /\ connResult = "none"
    /\ Len(connLog) = 13
    /\ connLog[2] = [ev |-> "resolved", connected |-> FALSE, message |-> <<>>,
                     round |-> 0, addr |-> 2]
    /\ connLog[13].message = <<"Failed to connect after n attempts", 3>>

\* C7: Reconnect mid-session: when a reconnect arrives while a bridge is running,
\* the reader and writer of the prior connection are fully released (old socket
\* closed) before the first connection attempt of the new connect starts; in every
\* reachable state at most one upstream connection is live.
C7_ReconnectReleasesFirst ==
    /\ (pc = "c_attempt" /\ depth >= 1) => \A c \in ConnIds : ~Live(c)
    /\ Cardinality({c \in ConnIds : Live(c)}) <= 1

\* C8: Lifecycle narration: every time a bridge has ended and the session is back in
\* Idle, a status with connected=false was enqueued after the last status with
\* connected=true (here: with the client channel and the outbox still open, so that
\* every enqueue took place).
C8_BridgeNeverEndsSilently ==
    (pc = "idle" /\ ~wsClosed /\ sendTask = "run") => lastStatus.connected = FALSE

\* C9: No automatic reconnection: a call of the connector starts only in a step
\* that consumes a client reconnect message; in Idle (after a failed connect, an
\* upstream close or a disconnect) the handler holds no connection, no task it has
\* not asked to abort runs, no connection is established and no attempt is made
\* until a reconnect message is consumed.
C9_StateInv ==
    /\ nConnects = nReconnects
    /\ Connecting => connResult = "pending"
    /\ pc = "idle" =>
        /\ cur = 0
        /\ connResult # "pending"
        /\ \A c \in ConnIds : rstate[c] # "run" /\ wstate[c] # "run"

C9_Step ==
    /\ nConnects' # nConnects =>
        /\ nConnects' = nConnects + 1
        /\ nReconnects' = nReconnects + 1
        /\ nMsgs' = nMsgs + 1
    /\ nConns' # nConns => pc = "c_attempt"
    /\ (pc = "idle" /\ nReconnects' = nReconnects) =>
        /\ pc' \in {"idle", "closed"}
        /\ nConns' = nConns
        /\ connLog' \in {connLog, <<>>}

C9_NoAutomaticReconnection == [](C9_StateInv) /\ [][C9_Step]_vars

\* C9 witness: Idle again after an upstream close ended the bridge (the reader ended
\* by itself, no client message since the connect).
C9_Witness ==
    /\ pc = "idle"
    /\ nConns = 1
    /\ nMsgs = 1
    /\ rstate[1] = "done"
    /\ lastStatus.message = <<"Disconnected">>

\* C10: Orchestrator state machine: from Idle a reconnect leads to Bridging if the
\* connector succeeds and leaves the session Idle if it fails; a bridge that ends
\* while the downstream channel is open leaves the session in Idle, where a later
\* reconnect is accepted and processed again.
C10_StateInv ==
    (pc = "idle" /\ ~wsClosed /\ nMsgs < MaxMsgs /\ nConnects < MaxConnects) =>
        ENABLED IdleRecv("reconnect")

C10_Step ==
    /\ (pc = "idle" /\ nReconnects' = nReconnects + 1) =>
        (pc' = "c_resolve" /\ connResult' = "pending" /\ nConnects' = nConnects + 1)
    /\ (connResult = "pending" /\ connResult' = "some") =>
        (pc' = "bridging" /\ cur' = nConns' /\ nConns' = nConns + 1
            /\ rstate'[cur'] = "run" /\ wstate'[cur'] = "run")
    /\ (connResult = "pending" /\ connResult' = "none") => (pc' = "idle" /\ cur' = 0)
    /\ (pc = "bridging" /\ pc' # "bridging") =>
        (pc' \in {"idle", "c_resolve"} /\ (pc' = "idle" => cur' = 0))

C10_OrchestratorStateMachine == [](C10_StateInv) /\ [][C10_Step]_vars

\* C10 witness: a second bridge on the same client channel, entered from Idle after
\* the first one ended.
C10_Witness ==
    /\ pc = "bridging"
    /\ nConns = 2
    /\ depth = 1
    /\ ~wsClosed

\* C11: Downstream close is terminal: once the client channel has delivered its
\* close (close frame or end of stream) in Idle or Bridging, the tasks of the bridge
\* are asked to abort, the only step left to the handler is the return (Closed),
\* which asks ws_send_task to abort, and no connector call, connection attempt or
\* connection follows.
C11_StateInv ==
    /\ wsClosed => pc \in {"idle", "closed"}
    /\ wsClosed =>
        /\ cur = 0
        /\ \A c \in ConnIds : rstate[c] # "run" /\ wstate[c] # "run"
    /\ pc = "closed" => (wsClosed /\ sendTask # "run")
    /\ (pc = "idle" /\ wsClosed /\ nMsgs < MaxMsgs) => ENABLED IdleRecv("close")

C11_Step ==
    /\ wsClosed =>
        /\ wsClosed'
        /\ nConnects' = nConnects
        /\ nConns' = nConns
        /\ connLog' \in {connLog, <<>>}
        /\ pc' \in {pc, "closed"}
    /\ pc = "closed" => pc' = "closed"
    /\ (~wsClosed /\ wsClosed') =>
        /\ pc \in {"idle", "bridging"}
        /\ pc = "idle" => pc' = "closed"
        /\ pc = "bridging" =>
            (pc' = "idle" /\ rstate'[cur] # "run" /\ wstate'[cur] # "run")

C11_DownstreamCloseTerminal == [](C11_StateInv) /\ [][C11_Step]_vars

\* C11 witness: Closed after the close arrived during a bridge whose reader and
\* writer were both running.
C11_Witness ==
    /\ pc = "closed"
    /\ nConns = 1
    /\ rstate[1] = "aborting"
    /\ wstate[1] = "aborting"
    /\ sendTask = "aborting"

\* C16: Connect does not stall the dispatcher: while the connector is resolving,
\* attempting or sleeping, a client disconnect or reconnect message can be consumed
\* by the session without waiting for the connector to return.
C16_DispatcherNotStalled ==
    (Connecting /\ ~wsClosed /\ nMsgs < MaxMsgs) =>
        ENABLED (\E m \in {"disconnect", "reconnect"} : IdleRecv(m) \/ BridgeRecv(m))

\* C17: First success wins: a status with connected=true is the last event of the
\* connector call, directly after the attempt that succeeded; the call has then
\* returned that connection (the bridge runs on it), emitted no 'failed' status, and
\* adds no attempt, delay or status afterwards.
C17_StateInv ==
    \A i \in 1..Len(connLog) :
        (connLog[i].ev = "status" /\ connLog[i].connected) =>
            /\ i = Len(connLog)
            /\ connLog[i].message = <<"Connected to dartmud.com:2525">>
            /\ connLog[i - 1].ev = "attempt"
            /\ \A j \in 1..(i - 1) :
                   connLog[j].message # <<"Failed to connect after n attempts", 3>>
            /\ connResult = "some"
            /\ pc = "bridging"
            /\ cur = nConns
            /\ attempt = 0

C17_Step ==
    /\ connResult = "some" => (connLog' = connLog \/ connResult' # "some")
    /\ (connResult = "pending" /\ connResult' = "some") =>
        /\ connLog'[Len(connLog')] =
               [ev |-> "status", connected |-> TRUE,
                message |-> <<"Connected to dartmud.com:2525">>, round |-> 0, addr |-> 0]
        /\ Len(connLog') = Len(connLog) + 2
        /\ lastStatus' \in {lastStatus, StatusMsg(TRUE, <<"Connected to dartmud.com:2525">>)}

C17_FirstSuccessWins == [](C17_StateInv) /\ [][C17_Step]_vars

\* C17 witness: the first address of round 2 accepted, with two addresses resolved:
\* the second address of that round was not tried.
C17_Witness ==
    /\ connResult = "some"
    /\ Len(connLog) = 8
    /\ connLog[2].addr = 2
    /\ connLog[7] = [ev |-> "attempt", connected |-> FALSE, message |-> <<>>,
                     round |-> 2, addr |-> 1]

\* C18: Resolution failure: a connector call whose resolution fails emits the
\* 'connecting' status and then one status(false, "DNS resolution failed"), returns
\* no connection at once, and makes no connection attempt and no retry delay.
C18_ResolutionFailure ==
    /\ (connResult = "none" /\ Len(connLog) >= 2 /\ connLog[2].ev # "resolved") =>
        /\ connLog =
             << [ev |-> "status", connected |-> FALSE,
                 message |-> <<"Connecting to dartmud.com:2525...">>,
                 round |-> 0, addr |-> 0],
                [ev |-> "status", connected |-> FALSE,
                 message |-> <<"DNS resolution failed">>, round |-> 0, addr |-> 0] >>
        /\ pc = "idle"
        /\ cur = 0
    /\ (Len(connLog) >= 2 /\ connLog[2].ev # "resolved") => connResult = "none"

\* C18 witness: the call returned after the failed resolution.
C18_Witness ==
    /\ connResult = "none"
    /\ Len(connLog) = 2
    /\ connLog[2].message = <<"DNS resolution failed">>
    /\ nConnects = 1

\* C19: Unknown and malformed client messages are no-ops: a frame that does not
\* parse, has another type, is a command without data or is no text frame leaves
\* the session as it is in Idle and in Bridging: nothing enqueued upstream, no
\* status, tasks and connection kept, and the handler waits for the next message.
C19_Step ==
    \A f \in {"unparseable", "other_type", "command_without_data", "non_text"} :
        (IdleRecv(MsgKind(f)) \/ BridgeRecv(MsgKind(f))) =>
            /\ UNCHANGED <<pc, wsClosed, nConns, nConnects, cur, depth, rstate, wstate,
                           writeQ, lastStatus, sendTask>>
            /\ nMsgs' = nMsgs + 1

C19_IgnoredFramesAreNoOps == [][C19_Step]_vars

\* C19 witness: a frame consumed during a bridge that is still running, with nothing
\* enqueued upstream.
C19_Witness ==
    /\ pc = "bridging"
    /\ nMsgs = 2
    /\ nReconnects = 1
    /\ upReads = 0
    /\ writeQ[1] = <<>>
    /\ rstate[1] = "run"
    /\ wstate[1] = "run"
    /\ lastStatus = StatusMsg(TRUE, <<"Connected to dartmud.com:2525">>)

(***************************************************************************)
(* Further properties of the codec, stated for CodecSpec.                  *)
(***************************************************************************)
\* C20: Display is free of control sequences: at every position the scan reaches,
\* a byte that is not IAC goes to the display bytes as it is, an IAC IAC pair adds
\* one 0xFF, and a negotiation command, a subnegotiation block, a two-byte command
\* and an incomplete trailing sequence add nothing; the display bytes are those of
\* the part before, this contribution, and those of the part after, in input order.
C20_DisplayOf(from) == Scan(SubSeq(input, from, Len(input))).display_bytes

C20_DisplayClean ==
    /\ processed.display = from_utf8_lossy(Scan(input).display_bytes)
    /\ \A p \in 0..(Len(input) - 1) :
        ScanPosition(p) =>
            LET before == Scan(SubSeq(input, 1, p)).display_bytes
                whole  == Scan(input).display_bytes
                n      == Len(input)
                b1     == input[p + 1]
                b2     == IF p + 2 <= n THEN input[p + 2] ELSE 0
            IN  /\ b1 # 255 => whole = before \o <<b1>> \o C20_DisplayOf(p + 2)
                /\ (b1 = 255 /\ p + 2 <= n /\ b2 = 255) =>
                       whole = before \o <<255>> \o C20_DisplayOf(p + 3)
                /\ (b1 = 255 /\ p + 3 <= n /\ b2 \in {251, 252, 253, 254}) =>
                       whole = before \o C20_DisplayOf(p + 4)
                /\ (b1 = 255 /\ p + 2 <= n /\ b2 \notin 250..255) =>
                       whole = before \o C20_DisplayOf(p + 3)
                /\ \A q \in 1..n : C5_Block(p, q) =>
                       whole = before \o C20_DisplayOf(q + 1)
                /\ C3_IncompleteTail(SubSeq(input, p + 1, n)) => whole = before

\* C20 witness: text, a two-byte command (go-ahead) and nothing else: only the text
\* is displayed.
C20_Witness ==
    /\ input = <<66, 255, 249>>
    /\ processed = [display |-> <<66>>, responses |-> <<>>, remainder |-> <<>>]

(***************************************************************************)
(* Properties of one bridge, stated for BridgeSpec.                        *)
(***************************************************************************)
IsPrefix(a, b) == Len(a) <= Len(b) /\ SubSeq(b, 1, Len(a)) = a

\* C12: Order preservation per direction: what the client has received is, in
\* order, the beginning of what was enqueued on the outbox, and what the server has
\* received is, in order, the beginning of what was enqueued on the upstream-write
\* queue; while the consumer runs, received followed by queued is exactly what was
\* enqueued (nothing reordered, duplicated or lost).
C12_OrderPreserved ==
    /\ IsPrefix(upSent, upLog)
    /\ IsPrefix(outSent, outLog)
    /\ Alive(wstate[1]) => upSent \o upQ = upLog
    /\ sendTask = "run" => outSent \o outQ = outLog

\* C12 witness: the server has received a negotiation reply and then a command, the
\* client an output message, through the proxy's two channels.
C12_Witness ==
    /\ variant = "proxy"
    /\ upSent = << <<255, 252, 6>>, <<108, 111, 111, 107, 13, 10>> >>
    /\ Len(outSent) >= 1
    /\ outSent[1].type = "output"

\* C13: Command forwarding: during a bridge a command with text t enqueues exactly
\* the bytes of t followed by CR LF, once, on the upstream-write queue (which exists
\* while the writer has not ended), and the writer writes the oldest queued buffer
\* to the server unchanged.
C13_Step ==
    /\ \A t \in CommandTexts :
        (BrCommand(t) /\ wstate[1] # "done") =>
            /\ upQ' = Append(upQ, t \o <<13, 10>>)
            /\ upLog' = Append(upLog, t \o <<13, 10>>)
            /\ pc' = "bridging"
    /\ BrWrite(TRUE) =>
        /\ upSent' = Append(upSent, Head(upQ))
        /\ upQ' = Tail(upQ)

C13_CommandForwarding == [][C13_Step]_vars

\* C13 witness: the server has received look CR LF.
C13_Witness ==
    /\ pc = "bridging"
    /\ backlog.up = 0
    /\ upSent = << <<108, 111, 111, 107, 13, 10>> >>

\* C14: Go-ahead flag: when the server has sent text followed by IAC GA and all of it
\* has reached the client, the client has one output message with that text and
\* ga=true; text not followed by a go-ahead arrives with ga=false; the go-ahead
\* bytes are in no text.
C14_Outputs == SelectSeq(outSent, LAMBDA m : m.type = "output")

C14_Delivered ==
    /\ variant = "proxy"
    /\ backlog.out = 0
    /\ pending = <<>>
    /\ remainder = <<>>
    /\ rjob = <<>>
    /\ outQ = <<>>
    /\ sendTask = "run"

C14_GoAheadFlag ==
    /\ (C14_Delivered /\ stream = <<82, 255, 249>>) =>
           /\ Len(C14_Outputs) = 1
           /\ C14_Outputs[1].data = <<82>>
           /\ C14_Outputs[1].ga = TRUE
    /\ (C14_Delivered /\ stream = <<65, 66>>) =>
           \A i \in 1..Len(C14_Outputs) : C14_Outputs[i].ga = FALSE
    /\ \A i \in 1..Len(C14_Outputs) :
           \A k \in 1..Len(C14_Outputs[i].data) :
               C14_Outputs[i].data[k] \notin {255, 249}

\* C15: Backpressure: neither channel holds more than 100 items; while its consumer
\* runs nothing that was enqueued is lost; once an enqueue has failed because the
\* consumer has ended, the producer has ended too: the reader after a reply that
\* could not be enqueued, the command dispatcher after a command that could not.
C15_RepliesEnqueued == Len(SelectSeq(upLog, LAMBDA b : b[1] = 255))

C15_RepliesPending == Len(SelectSeq(rjob, LAMBDA j : j.to = "up"))

C15_CommandsEnqueued == Len(SelectSeq(upLog, LAMBDA b : b[1] # 255))

C15_Backpressure ==
    /\ Len(upQ) <= 100
    /\ Len(outQ) <= 100
    /\ Alive(wstate[1]) => Len(upSent) + Len(upQ) = Len(upLog)
    /\ sendTask = "run" => Len(outSent) + Len(outQ) = Len(outLog)
    /\ Len(replies) > C15_RepliesEnqueued + C15_RepliesPending => rstate[1] = "done"
    /\ nMsgs - 1 > C15_CommandsEnqueued => pc # "bridging"

\* C21: Upstream end of stream: when a read returns zero bytes or fails, the reader
\* enqueues one status(connected=false, "Disconnected") on the outbox (the outbox
\* being open) and stops; no second such status is ever enqueued; the bridge loop
\* then ends by itself, the session being Idle again, with no client message
\* consumed in between.
C21_Disconnected ==
    [type |-> "status", data |-> <<>>, ga |-> FALSE, connected |-> FALSE,
     message |-> <<"Disconnected">>]

C21_StateInv ==
    /\ Len(SelectSeq(outLog, LAMBDA m : m.type = "status")) <= 1
    /\ \A i \in 1..Len(outLog) : outLog[i].type = "status" => outLog[i] = C21_Disconnected
    /\ (pc = "bridging" /\ rstate[1] = "done") => ENABLED BridgeReaderFinished

C21_Step ==
    /\ BrReaderEnd =>
        /\ rstate'[1] = "done"
        /\ rjob' = <<>>
        /\ (variant = "desktop" \/ sendTask # "done") => outLog' = Append(outLog, C21_Disconnected)
        /\ nMsgs' = nMsgs
    /\ rstate[1] = "done" => (rstate'[1] = "done" /\ outLog' = outLog /\ UNCHANGED codecVars)
    /\ BridgeReaderFinished => (pc' = "idle" /\ cur' = 0 /\ nMsgs' = nMsgs)

C21_UpstreamEnd ==
    /\ [](C21_StateInv)
    /\ [][C21_Step]_vars
    /\ (pc = "bridging" /\ rstate[1] = "done") ~> (pc = "idle")

\* C21 witness: the proxy's bridge has ended after the server closed the connection:
\* the status is the last message the client got, no client message was consumed.
C21_Witness ==
    /\ variant = "proxy"
    /\ backlog.up = 0
    /\ pc = "idle"
    /\ nMsgs = 1
    /\ pending = <<>>
    /\ rstate[1] = "done"
    /\ outSent # <<>>
    /\ outSent[Len(outSent)] = C21_Disconnected

(***************************************************************************)
(* Further properties of the session, stated for Spec.                     *)
(***************************************************************************)
\* C22: Teardown on exit: on every path by which the bridge loop is left (disconnect,
\* downstream close, reader termination, failed enqueue of a command, reconnect
\* whether the connect then fails or succeeds), the reader and the writer of that
\* connection have been asked to abort; a task that was asked to abort never runs
\* again, so the only tasks not asked to abort are those of the bridge in progress.
C22_StateInv ==
    \A c \in ConnIds :
        (rstate[c] = "run" \/ wstate[c] = "run") => (pc = "bridging" /\ cur = c)

C22_Step ==
    /\ (pc = "bridging" /\ pc' # "bridging") =>
        (rstate'[cur] # "run" /\ wstate'[cur] # "run")
    /\ \A c \in ConnIds :
        /\ rstate[c] \in {"aborting", "done"} => rstate'[c] \in {"aborting", "done"}
        /\ wstate[c] \in {"aborting", "done"} => wstate'[c] \in {"aborting", "done"}

C22_TeardownOnExit == [](C22_StateInv) /\ [][C22_Step]_vars

\* C22 witness: a reconnect during a bridge succeeded: the new bridge runs and both
\* tasks of the old one, which were running, have been asked to abort.
C22_Witness ==
    /\ pc = "bridging"
    /\ cur = 2
    /\ depth = 2
    /\ rstate[1] = "aborting"
    /\ wstate[1] = "aborting"
    /\ rstate[2] = "run"
    /\ wstate[2] = "run"

(***************************************************************************)
(* Further properties of one bridge, stated for FairBridgeSpec.            *)
(***************************************************************************)
\* C23: Downstream send failure ends the bridge: once sending a message to the
\* client has failed (ws_send_task has left its loop), the running bridge ends: the
\* session is Idle again and the reader and the writer have been asked to abort,
\* whether or not the server sends anything further.
C23_SendFailureEndsBridge ==
    (variant = "proxy" /\ sendTask = "done" /\ pc = "bridging")
        ~> (pc = "idle" /\ rstate[1] # "run" /\ wstate[1] # "run")

(***************************************************************************)
(* More properties of the session, stated for Spec.                        *)
(***************************************************************************)
\* C24: Reconnect is a state replacement, not a re-entry: however many reconnect
\* messages the client sends, the bridge loops of one client are never nested: at
\* most one run_mud_loop frame exists.
C24_NestingBounded == depth <= 1

(***************************************************************************)
(* Properties of the handover, stated for HandoverSpec.                    *)
(***************************************************************************)
\* C25: Per-connection ownership: a connection's remainder and write channel start
\* empty when its bridge starts; the remainder a reader holds is determined by the
\* bytes read from its own connection alone (no byte held back from another
\* connection is ever prepended), and every item in a connection's write channel
\* or written to its socket was enqueued for that connection.
C25_StateInv ==
    \A c \in ConnIds :
        /\ remOf[c] = Scan(got[c]).remainder
        /\ \A i \in 1..Len(wq[c]) : wq[c][i].conn = c
        /\ \A i \in 1..Len(wrote[c]) : wrote[c][i].conn = c
        /\ rstate[c] = "unborn" => (got[c] = <<>> /\ wq[c] = <<>> /\ wrote[c] = <<>>)

C25_Step ==
    \A c \in ConnIds :
        (rstate[c] = "unborn" /\ rstate'[c] # "unborn") =>
            (remOf'[c] = <<>> /\ wq'[c] = <<>> /\ wrote'[c] = <<>>)

C25_PerConnectionOwnership == [](C25_StateInv) /\ [][C25_Step]_vars

\* C25 witness: after a reconnect the old reader still holds a remainder and the old
\* channel an unwritten command, the new reader has read from the new connection
\* and a reply to it has been written to the new socket.
C25_Witness ==
    /\ pc = "bridging"
    /\ cur = 2
    /\ remOf[1] = <<255>>
    /\ wq[1] # <<>>
    /\ got[2] = <<255, 253, 6, 255>>
    /\ wrote[2] = <<[conn |-> 2, bytes |-> <<255, 252, 6>>]>>

(***************************************************************************)
(* Further properties of one bridge, stated for BridgeSpec.                *)
(***************************************************************************)
\* C26: Output only for non-empty text: a read whose display text is not empty
\* leads to exactly one output message, carrying that text, and a read whose display
\* text is empty (control sequences only, a go-ahead on its own) to none; the replies
\* of a read are enqueued on the upstream-write queue before its output message is
\* enqueued on the outbox.  (As long as no enqueue fails: a failed enqueue ends the
\* proxy's reader.)
C26_IsOutput(m) == m.type = "output"

C26_NewOutputs == SelectSeq(SubSeq(outLog, backlog.out + 1, Len(outLog)), C26_IsOutput)

C26_PendingOutputs == SelectSeq(rjob, LAMBDA j : j.to = "out")

C26_Count == Len(C26_NewOutputs) + Len(C26_PendingOutputs)

RECURSIVE C26_Text(_)
C26_Text(msgs) == IF msgs = <<>> THEN <<>> ELSE Head(msgs).data \o C26_Text(Tail(msgs))

C26_NoEnqueueFails == wstate[1] # "done" /\ (variant = "desktop" \/ sendTask # "done")

C26_StateInv ==
    /\ \A i \in 1..Len(C26_NewOutputs) : C26_NewOutputs[i].data # <<>>
    /\ C26_Count <= nReads
    /\ C26_NoEnqueueFails =>
        C26_Text(C26_NewOutputs) \o C26_Text([i \in 1..Len(C26_PendingOutputs) |->
                                                C26_PendingOutputs[i].msg]) = shown

C26_Step ==
    /\ (C26_NoEnqueueFails /\ nReads' = nReads + 1) =>
        /\ processed'.display # <<>> => C26_Count' = C26_Count + 1
        /\ processed'.display = <<>> => C26_Count' = C26_Count
    /\ (C26_NoEnqueueFails /\ nReads' = nReads) => C26_Count' = C26_Count
    /\ (wstate[1] # "done" /\ Len(outLog') = Len(outLog) + 1
            /\ outLog'[Len(outLog')].type = "output") =>
        /\ outLog'[Len(outLog')].data = processed.display
        /\ Len(SelectSeq(upLog, LAMBDA b : b[1] = 255)) = Len(replies)

C26_OutputOnlyForText == [](C26_StateInv) /\ [][C26_Step]_vars

\* C26 witness: two reads, the first a negotiation only (a reply, no message), the
\* second the text "B" (one message), all sends done.
C26_Witness ==
    /\ backlog = [up |-> 0, out |-> 0]
    /\ stream = <<255, 253, 6, 66>>
    /\ nReads = 2
    /\ rjob = <<>>
    /\ upLog = << <<255, 252, 6>> >>
    /\ Len(outLog) = 1
    /\ outLog[1].data = <<66>>

(***************************************************************************)
(* Properties of the connector's narration, stated for Spec.               *)
(***************************************************************************)
\* C27: Retry narration: in the log of one connect call the first event is the
\* "connecting" status (connected=false) and it occurs once; a "retrying (k/3)"
\* status occurs exactly after the last address of a round k in {1, 2} has failed,
\* is followed by one retry delay and then by the first attempt of round k+1; the
\* call emits one final status, as its last event: connected=true, or a failure.
C27_Connecting ==
    [ev |-> "status", connected |-> FALSE,
     message |-> <<"Connecting to dartmud.com:2525...">>, round |-> 0, addr |-> 0]

C27_Retrying(k) ==
    [ev |-> "status", connected |-> FALSE,
     message |-> <<"Connection failed, retrying (k/n)...", k, 3>>, round |-> 0, addr |-> 0]

C27_IsRetrying(e) ==
    e.ev = "status" /\ e.message # <<>> /\ e.message[1] = "Connection failed, retrying (k/n)..."

C27_IsFinal(e) ==
    /\ e.ev = "status"
    /\ \/ e.connected
       \/ e.message \in {<<"Failed to connect after n attempts", 3>>,
                         <<"DNS resolution failed">>}

C27_Attempt(k, a) ==
    [ev |-> "attempt", connected |-> FALSE, message |-> <<>>, round |-> k, addr |-> a]

C27_Sleep(k) ==
    [ev |-> "sleep", connected |-> FALSE, message |-> <<>>, round |-> k, addr |-> 0]

C27_Narration ==
    connLog # <<>> =>
        LET n == Len(connLog)
            last == IF n >= 2 /\ connLog[2].ev = "resolved" THEN connLog[2].addr ELSE 0
            finals == {i \in 1..n : C27_IsFinal(connLog[i])}
        IN  /\ connLog[1] = C27_Connecting
            /\ \A i \in 2..n : connLog[i] # C27_Connecting
            /\ \A i \in 1..n : C27_IsRetrying(connLog[i]) =>
                   \E k \in {1, 2} :
                       /\ connLog[i] = C27_Retrying(k)
                       /\ connLog[i - 1] = C27_Attempt(k, last)
                       /\ i < n => connLog[i + 1] = C27_Sleep(k)
                       /\ i + 1 < n => connLog[i + 2] = C27_Attempt(k + 1, 1)
            /\ \A i \in 1..(n - 1) :
                   (connLog[i].ev = "attempt" /\ connLog[i].addr = last
                        /\ connLog[i].round \in {1, 2}) =>
                       (connLog[i + 1] = C27_Retrying(connLog[i].round)
                            \/ connLog[i + 1].connected)
            /\ \A i \in 1..n : connLog[i].ev = "sleep" =>
                   connLog[i - 1] = C27_Retrying(connLog[i].round)
            /\ connResult = "pending" => finals = {}
            /\ connResult \in {"some", "none"} => finals = {n}

\* C27 witness: a call that failed on its one address in round 1, narrated the
\* retry, slept, and connected in round 2.
C27_Witness ==
    /\ connResult = "some"
    /\ Len(connLog) = 7
    /\ connLog[3] = C27_Attempt(1, 1)
    /\ connLog[4] = C27_Retrying(1)
    /\ connLog[5] = C27_Sleep(1)
    /\ connLog[6] = C27_Attempt(2, 1)
    /\ connLog[7].connected

(***************************************************************************)
(* More properties of the codec, stated for CodecSpec.                     *)
(***************************************************************************)
\* C28: The codec is total: on every input the scan reads no index outside the
\* buffer, every iteration that does not return moves the index forward, the loop
\* ends with the index at the end of the buffer or with a return, a result with its
\* three fields is returned, and the bytes the scan consumed together with the
\* remainder are the whole input.
C28_CodecTotal ==
    LET n == Len(input)
        t == ScanTrace(input, 1)
        m == Len(t)
        consumed == IF m = 0 THEN 0
                    ELSE IF t[m].next = 0 THEN t[m].at - 1
                    ELSE t[m].next - 1
    IN  /\ \A k \in 1..m :
               /\ t[k].at >= 1
               /\ t[k].reads <= n
               /\ t[k].next = 0 \/ t[k].next > t[k].at
               /\ t[k].next <= n + 1
               /\ k < m => t[k + 1].at = t[k].next
        /\ m <= n
        /\ n > 0 => (t[m].next = 0 \/ t[m].next = n + 1)
        /\ DOMAIN processed = {"display", "responses", "remainder"}
        /\ processed = process_output(input)
        /\ consumed + Len(processed.remainder) = n
        /\ processed.remainder = SubSeq(input, consumed + 1, n)

\* C28 witness: a call on text followed by an unterminated subnegotiation: two
\* iterations, the second returns with three bytes held back.
C28_Witness ==
    /\ nReads = 1
    /\ input = <<65, 255, 250, 65>>
    /\ Len(ScanTrace(input, 1)) = 2
    /\ processed.remainder = <<255, 250, 65>>

\* C29: Remainder shape: the remainder of a call is a suffix of its input; it is
\* empty or begins with IAC; when it is not empty it is exactly [IAC], or [IAC, c]
\* with c one of DO, WILL, WONT, DONT, or it starts with IAC SB and has no IAC SE
\* pair after these two bytes.
C29_RemainderShape ==
    LET r == processed.remainder
        n == Len(input)
    IN  /\ Len(r) <= n
        /\ r = SubSeq(input, n - Len(r) + 1, n)
        /\ r # <<>> =>
            /\ r[1] = 255
            /\ \/ r = <<255>>
               \/ Len(r) = 2 /\ r[2] \in {253, 251, 252, 254}
               \/ /\ Len(r) >= 2
                  /\ r[2] = 250
                  /\ \A j \in 3..(Len(r) - 1) : ~(r[j] = 255 /\ r[j + 1] = 240)

\* C29 witness: a call whose input is an unterminated subnegotiation holding an SE
\* byte and a trailing IAC: all of it is held back.
C29_Witness ==
    /\ nReads = 1
    /\ input = <<255, 250, 240, 255>>
    /\ processed.remainder = <<255, 250, 240, 255>>

\* C30: Unterminated subnegotiation withholds everything after it: while the reader
\* holds an open subnegotiation (its remainder starts with IAC SB), a read that
\* brings no IAC SE appends all its bytes to the remainder, which grows, and yields
\* no display text and no reply, whatever the bytes are; a read that completes the
\* first IAC SE yields the display text and replies of the bytes after that pair
\* only.
C30_Open == Len(remainder) >= 2 /\ remainder[1] = 255 /\ remainder[2] = 250

C30_SEAt(v) ==
    LET S == {j \in 3..(Len(v) - 1) : v[j] = 255 /\ v[j + 1] = 240}
    IN  IF S = {} THEN 0 ELSE CHOOSE j \in S : \A k \in S : j <= k

C30_Step ==
    (C30_Open /\ nReads' = nReads + 1) =>
        LET chunk == SubSeq(stream', Len(stream) + 1, Len(stream'))
            inp == remainder \o chunk
            j == C30_SEAt(inp)
            rest == process_output(SubSeq(inp, j + 2, Len(inp)))
        IN  /\ chunk # <<>>
            /\ IF j = 0 THEN
                   /\ remainder' = inp
                   /\ Len(remainder') > Len(remainder)
                   /\ processed'.display = <<>>
                   /\ processed'.responses = <<>>
                   /\ shown' = shown
                   /\ replies' = replies
               ELSE
                   /\ processed'.display = rest.display
                   /\ processed'.responses = rest.responses
                   /\ remainder' = rest.remainder
                   /\ shown' = shown \o rest.display
                   /\ replies' = replies \o rest.responses

C30_SubnegotiationWithholds == [][C30_Step]_vars

\* C30 witness: after IAC SB a second read brought DO and "A": both are held back,
\* nothing was displayed and no reply produced.
C30_Witness ==
    /\ nReads = 2
    /\ stream = <<255, 250, 253, 65>>
    /\ remainder = <<255, 250, 253, 65>>
    /\ input = <<255, 250, 253, 65>>
    /\ shown = <<>>
    /\ replies = <<>>

(***************************************************************************)
(* Properties of the Idle state, stated for Spec.                          *)
(***************************************************************************)
\* C33: Messages in Idle other than reconnect have no effect: a command or a
\* disconnect that run_session's loop consumes is discarded: the session stays
\* Idle, no connector call and no connection follows from it, no status is
\* enqueued, no task changes; nothing is kept for a connection to come: the write
\* channel of a connection is empty when its bridge starts.
C33_StateInv ==
    \A c \in ConnIds : rstate[c] = "unborn" => writeQ[c] = <<>>

C33_Step ==
    /\ \A f \in {"command", "disconnect"} :
        IdleRecv(MsgKind(f)) =>
            /\ pc' = "idle"
            /\ nMsgs' = nMsgs + 1
            /\ connResult' = "idle"
            /\ UNCHANGED <<nConnects, nConns, lastStatus, writeQ, rstate, wstate, cur,
                           depth, wsClosed, sendTask, nReconnects>>
    /\ \A c \in ConnIds :
        (rstate[c] = "unborn" /\ rstate'[c] # "unborn") => writeQ'[c] = <<>>

C33_IdleMessagesDiscarded == [](C33_StateInv) /\ [][C33_Step]_vars

\* C33 witness: two messages other than reconnect were consumed in Idle, then a
\* reconnect succeeded: the bridge has just started and its write channel is empty.
C33_Witness ==
    /\ pc = "bridging"
    /\ connResult = "some"
    /\ nConns = 1
    /\ nMsgs = 3
    /\ nReconnects = 1
    /\ writeQ[1] = <<>>

(***************************************************************************)
(* Further properties of the handover, stated for HandoverSpec.            *)
(***************************************************************************)
\* C32: No stale traffic after a reconnect: a reader enqueues an output message or
\* its "Disconnected" status only while the bridge of its connection is the one in
\* progress: not after the reconnect that left that bridge has been consumed (whose
\* "connecting" status is enqueued in the same step), so what follows a
\* status(connected=true) comes from the connection that status announced.
C32_Step ==
    \A c \in ConnIds :
        emitted'[c] # emitted[c] => (pc = "bridging" /\ cur = c)

C32_NoStaleTraffic == [][C32_Step]_vars

(***************************************************************************)
(* The desktop orchestrator: the commands of lib.rs on ConnectionState.    *)
(* Each command body is cut where it takes or releases a lock: the two     *)
(* std::sync::Mutex guards are taken and dropped one after the other, and  *)
(* tauri runs async commands on the multi-threaded runtime, so the bodies  *)
(* of two invocations interleave at these points.                          *)
(***************************************************************************)
Commands == {"reconnect", "disconnect", "send_command"}

\* The frontend invokes a command; invocations are numbered in invocation order.
Invoke(p, k) ==
    /\ at[p] = "new"
    /\ \A q \in 1..(p - 1) : at[q] # "new"
    /\ kind' = [kind EXCEPT ![p] = k]
    /\ at' = [at EXCEPT ![p] = IF k = "send_command" THEN "clone_tx" ELSE "clear_tx"]
    /\ UNCHANGED <<cmd_tx, task_handle, conn_task, tx, result, lastDone>>
    /\ UNCHANGED <<codecVars, proxyVars, bridgeVars, handoverVars>>

\* The command returns to the frontend.
Return(p, r) ==
    /\ at' = [at EXCEPT ![p] = "done"]
    /\ result' = [result EXCEPT ![p] = r]
    /\ lastDone' = p

\* spawn_connection 17-20 and disconnect 70-73: { lock cmd_tx; *tx = None; }.
ClearTx(p) ==
    /\ at[p] = "clear_tx"
    /\ cmd_tx' = 0
    /\ at' = [at EXCEPT ![p] = "take_handle"]
    /\ UNCHANGED <<task_handle, conn_task, kind, tx, result, lastDone>>
    /\ UNCHANGED <<codecVars, proxyVars, bridgeVars, handoverVars>>

\* spawn_connection 23-28 and disconnect 74-79: { lock task_handle; if let Some(h)
\* = handle.take() { h.abort(); } }.  abort() on a task that has ended does nothing.
TakeHandle(p) ==
    /\ at[p] = "take_handle"
    /\ task_handle' = 0
    /\ conn_task' = IF task_handle # 0 /\ conn_task[task_handle] = "run"
                       THEN [conn_task EXCEPT ![task_handle] = "aborting"]
                       ELSE conn_task
    /\ at' = [at EXCEPT ![p] = IF kind[p] = "reconnect" THEN "set_tx" ELSE "emit"]
    /\ UNCHANGED <<cmd_tx, kind, tx, result, lastDone>>
    /\ UNCHANGED <<codecVars, proxyVars, bridgeVars, handoverVars>>

\* spawn_connection 30-31: the new channel, its sender stored in cmd_tx.
SetTx(p) ==
    /\ at[p] = "set_tx"
    /\ cmd_tx' = p
    /\ at' = [at EXCEPT ![p] = "spawn"]
    /\ UNCHANGED <<task_handle, conn_task, kind, tx, result, lastDone>>
    /\ UNCHANGED <<codecVars, proxyVars, bridgeVars, handoverVars>>

\* spawn_connection 33-40: the task that runs connection::connect(app_handle, rx).
SpawnTask(p) ==
    /\ at[p] = "spawn"
    /\ conn_task' = [conn_task EXCEPT ![p] = "run"]
    /\ at' = [at EXCEPT ![p] = "set_handle"]
    /\ UNCHANGED <<cmd_tx, task_handle, kind, tx, result, lastDone>>
    /\ UNCHANGED <<codecVars, proxyVars, bridgeVars, handoverVars>>

\* spawn_connection 42 and reconnect 65: the JoinHandle stored (the one it replaces
\* is dropped, which detaches its task), Ok(()).
SetHandle(p) ==
    /\ at[p] = "set_handle"
    /\ task_handle' = p
    /\ Return(p, "Ok")
    /\ UNCHANGED <<cmd_tx, conn_task, kind, tx>>
    /\ UNCHANGED <<codecVars, proxyVars, bridgeVars, handoverVars>>

\* disconnect 80-87: the "Disconnected" status event (ConnectionState is not
\* touched), Ok(()).
DisconnectEmit(p) ==
    /\ at[p] = "emit"
    /\ Return(p, "Ok")
    /\ UNCHANGED <<cmd_tx, task_handle, conn_task, kind, tx>>
    /\ UNCHANGED <<codecVars, proxyVars, bridgeVars, handoverVars>>

\* send_command 50-53: { lock cmd_tx; guard.clone() }.
CloneTx(p) ==
    /\ at[p] = "clone_tx"
    /\ tx' = [tx EXCEPT ![p] = cmd_tx]
    /\ at' = [at EXCEPT ![p] = "send"]
    /\ UNCHANGED <<cmd_tx, task_handle, conn_task, kind, result, lastDone>>
    /\ UNCHANGED <<codecVars, proxyVars, bridgeVars, handoverVars>>

\* send_command 54-59: tx.send(command) on the clone (an error when the receiver
\* is gone, which it is once its task has ended), or Err("Not connected").
SendOnClone(p) ==
    /\ at[p] = "send"
    /\ Return(p, IF tx[p] = 0 THEN "Not connected"
                 ELSE IF conn_task[tx[p]] = "done" THEN "channel closed"
                 ELSE "Ok")
    /\ UNCHANGED <<cmd_tx, task_handle, conn_task, kind, tx>>
    /\ UNCHANGED <<codecVars, proxyVars, bridgeVars, handoverVars>>

\* connection::connect returns (connection.rs 58, 118, 199: resolution or connect
\* failed, or the read loop was left): the task ends by itself.
ConnTaskEnds(t) ==
    /\ conn_task[t] = "run"
    /\ conn_task' = [conn_task EXCEPT ![t] = "done"]
    /\ UNCHANGED <<cmd_tx, task_handle, at, kind, tx, result, lastDone>>
    /\ UNCHANGED <<codecVars, proxyVars, bridgeVars, handoverVars>>

\* The runtime drops a connection task that was asked to abort.
ConnTaskCancelled(t) ==
    /\ conn_task[t] = "aborting"
    /\ conn_task' = [conn_task EXCEPT ![t] = "done"]
    /\ UNCHANGED <<cmd_tx, task_handle, at, kind, tx, result, lastDone>>
    /\ UNCHANGED <<codecVars, proxyVars, bridgeVars, handoverVars>>

DesktopInit == Init

DesktopNext ==
    \/ \E p \in Invokes, k \in Commands : Invoke(p, k)
    \/ \E p \in Invokes : ClearTx(p)
    \/ \E p \in Invokes : TakeHandle(p)
    \/ \E p \in Invokes : SetTx(p)
    \/ \E p \in Invokes : SpawnTask(p)
    \/ \E p \in Invokes : SetHandle(p)
    \/ \E p \in Invokes : DisconnectEmit(p)
    \/ \E p \in Invokes : CloneTx(p)
    \/ \E p \in Invokes : SendOnClone(p)
    \/ \E t \in Invokes : ConnTaskEnds(t)
    \/ \E t \in Invokes : ConnTaskCancelled(t)

DesktopSpec == DesktopInit /\ [][DesktopNext]_vars

(***************************************************************************)
(* Properties of the desktop orchestrator, stated for DesktopSpec.         *)
(***************************************************************************)
C31_Running == { t \in Invokes : conn_task[t] = "run" }

\* No command is between its invocation and its return.
C31_Settled == \A p \in Invokes : at[p] \in {"new", "done"}

\* C31: Desktop connection state stays consistent under concurrent commands: once
\* the reconnect and disconnect commands invoked so far have returned, in whatever
\* order their lock sections interleaved, at most one connection task is running,
\* task_handle refers to it and cmd_tx is the sender of its channel; and when the
\* command that returned last is a disconnect, no connection task is running and
\* cmd_tx is None, so that send_command returns "Not connected".
C31_DesktopStateConsistent ==
    C31_Settled =>
        /\ Cardinality(C31_Running) <= 1
        /\ \A t \in C31_Running : task_handle = t /\ cmd_tx = t
        /\ (lastDone # 0 /\ kind[lastDone] = "disconnect") =>
               (C31_Running = {} /\ cmd_tx = 0)

====
